---- MODULE Spec2Model ----
(***************************************************************************)
(* Model of the interface-lifecycle and address-allocation subsystem of    *)
(* netmiko_project.py: the address ledger (DB_FILE), the create and delete *)
(* workflows of the interface handlers, and Session.make_connection.       *)
(***************************************************************************)
EXTENDS Integers, Sequences, FiniteSets, TLC

(***************************************************************************)
(* Text.  Python strings are TLA+ strings; the operators below are the     *)
(* str methods the program uses.                                           *)
(***************************************************************************)

\* s[i] for a 1-based position i.
CharAt(s, i) == SubSeq(s, i, i)

\* str.find(ch) for one character: 0-based position of the first occurrence
\* of ch, -1 if there is none.
Find(s, ch) ==
    IF \E i \in 1..Len(s) : CharAt(s, i) = ch
    THEN (CHOOSE i \in 1..Len(s) :
              CharAt(s, i) = ch /\ \A j \in 1..(i - 1) : CharAt(s, j) # ch) - 1
    ELSE -1

\* s[:n] with Python's meaning of a negative n (counted from the end).
\* A slice bound brought into 0..len.
Clamp(stop, len) == IF stop < 0 THEN 0 ELSE IF stop > len THEN len ELSE stop

SliceTo(s, n) == SubSeq(s, 1, Clamp(IF n < 0 THEN Len(s) + n ELSE n, Len(s)))

\* s[n:]; a negative n counts from the end.
SliceFrom(s, n) == SubSeq(s, Clamp(IF n < 0 THEN Len(s) + n ELSE n, Len(s)) + 1, Len(s))

\* str.split(sep) for a one-character sep: the fields between the
\* occurrences of sep, empty ones kept.
\* The position of the k-th separator; 0 before the first field, end after
\* the last.
Cut(cuts, k, end) ==
    IF k = 0 THEN 0
    ELSE IF k = Cardinality(cuts) + 1 THEN end
    ELSE CHOOSE i \in cuts : Cardinality({j \in cuts : j < i}) = k - 1

\* The fields of s between the separators at the positions cuts.
Fields(s, cuts) ==
    [k \in 1..(Cardinality(cuts) + 1) |->
        SubSeq(s, Cut(cuts, k - 1, Len(s) + 1) + 1, Cut(cuts, k, Len(s) + 1) - 1)]

Split(s, sep) == Fields(s, {i \in 1..Len(s) : CharAt(s, i) = sep})

Digits == {"0", "1", "2", "3", "4", "5", "6", "7", "8", "9"}

DigitValue(c) ==
    CASE c = "0" -> 0 [] c = "1" -> 1 [] c = "2" -> 2 [] c = "3" -> 3
      [] c = "4" -> 4 [] c = "5" -> 5 [] c = "6" -> 6 [] c = "7" -> 7
      [] c = "8" -> 8 [] c = "9" -> 9

\* str.isdigit() on ASCII text: non-empty and every character a digit.
IsDigits(s) == Len(s) > 0 /\ \A i \in 1..Len(s) : CharAt(s, i) \in Digits

\* int(s) for a string of digits.
ToInt(s) ==
    LET value[i \in 0..Len(s)] ==
            IF i = 0 THEN 0 ELSE 10 * value[i - 1] + DigitValue(CharAt(s, i))
    IN  value[Len(s)]

(***************************************************************************)
(* Addresses.  A 32-bit IPv4 address is kept as its two 16-bit halves      *)
(* [hi, lo], so that no operation leaves the range of the integers the     *)
(* checker computes with.  A parse that raises ValueError yields           *)
(* ValueError, a value without the field ok set.                           *)
(***************************************************************************)

ValueError == [ok |-> FALSE]

Half == 2 ^ 16

\* One dotted-quad field as ipaddress accepts it: 1 to 3 decimal digits,
\* no leading zero on a longer field, at most 255.
OctetOk(f) ==
    /\ IsDigits(f)
    /\ Len(f) <= 3
    /\ (Len(f) > 1 => CharAt(f, 1) # "0")
    /\ ToInt(f) <= 255

\* ipaddress.IPv4Address(text): the address, or ValueError.
\* The address of four dotted fields, or ValueError.
Octets(f) ==
    IF Len(f) # 4 THEN ValueError
    ELSE IF \E i \in 1..4 : ~OctetOk(f[i]) THEN ValueError
    ELSE [ok |-> TRUE,
          hi |-> ToInt(f[1]) * 256 + ToInt(f[2]),
          lo |-> ToInt(f[3]) * 256 + ToInt(f[4])]

IPv4Address(text) ==
    IF Find(text, "/") # -1 THEN ValueError ELSE Octets(Split(text, "."))

\* Sizes of the host part of a /p network in the high and the low half.
HiSize(p) == IF p >= 16 THEN 1 ELSE 2 ^ (16 - p)
LoSize(p) == IF p <= 16 THEN Half ELSE 2 ^ (32 - p)

\* ipaddress.IPv4Network(text), strict: [addr, plen], or ValueError for more
\* than one '/', a bad address, a prefix that is not 0..32 in decimal digits,
\* or host bits set.  (A prefix written as a dotted netmask is not among the
\* texts the model enumerates and is read as not decimal.)
\* The network of address a and prefix length p, or ValueError for a bad
\* address, a prefix above 32 or host bits set.
Strict(a, p) ==
    IF ~a.ok THEN ValueError
    ELSE IF p > 32 THEN ValueError
    ELSE IF a.hi % HiSize(p) # 0 \/ a.lo % LoSize(p) # 0 THEN ValueError
    ELSE [ok |-> TRUE, addr |-> a, plen |-> p]

\* The network written as the fields around the '/'.
AddressAndPrefix(parts) ==
    IF Len(parts) > 2 THEN ValueError
    ELSE IF Len(parts) = 2 /\ ~IsDigits(parts[2]) THEN ValueError
    ELSE Strict(IPv4Address(parts[1]), IF Len(parts) = 2 THEN ToInt(parts[2]) ELSE 32)

IPv4Network(text) == AddressAndPrefix(Split(text, "/"))

\* address in network (IPv4Network.__contains__).
InNet(a, n) ==
    /\ a.hi \div HiSize(n.plen) = n.addr.hi \div HiSize(n.plen)
    /\ a.lo \div LoSize(n.plen) = n.addr.lo \div LoSize(n.plen)

\* network.broadcast_address
Broadcast(n) ==
    [ok |-> TRUE,
     hi |-> n.addr.hi + HiSize(n.plen) - 1,
     lo |-> n.addr.lo + LoSize(n.plen) - 1]

\* The address after a (a is never the last address where this is used).
Succ(a) == IF a.lo = Half - 1 THEN [ok |-> TRUE, hi |-> a.hi + 1, lo |-> 0]
           ELSE [ok |-> TRUE, hi |-> a.hi, lo |-> a.lo + 1]

\* list(network.hosts())[0]: the address itself for /32, the network address
\* for /31, otherwise the address after the network address.
FirstHost(n) == IF n.plen >= 31 THEN n.addr ELSE Succ(n.addr)

\* str(k) for an octet k.
DigitStr(d) == CharAt("0123456789", d + 1)

IntStr(k) ==
    IF k < 10 THEN DigitStr(k)
    ELSE IF k < 100 THEN DigitStr(k \div 10) \o DigitStr(k % 10)
    ELSE DigitStr(k \div 100) \o DigitStr((k \div 10) % 10) \o DigitStr(k % 10)

\* str(address)
AddrStr(a) ==
    IntStr(a.hi \div 256) \o "." \o IntStr(a.hi % 256) \o "." \o
    IntStr(a.lo \div 256) \o "." \o IntStr(a.lo % 256)

(***************************************************************************)
(* The address ledger.  A ledger is the sequence of the 'ip_address' texts *)
(* of the records of DB_FILE, in insertion order (the order TinyDB         *)
(* iterates in).                                                           *)
(***************************************************************************)

None == "None"

\* a is one of network.hosts(): every address of a /31 or /32, otherwise the
\* addresses strictly between the network and the broadcast address.
IsHost(a, net) ==
    /\ InNet(a, net)
    /\ (net.plen <= 30 => a # net.addr /\ a # Broadcast(net))

\* The test check_ip_format applies to one record: the candidate address is
\* in the record's network, or is one of its hosts or its broadcast address.
Conflicts(a, net) ==
    \/ InNet(a, net)
    \/ IsHost(a, net)
    \/ a = Broadcast(net)

\* The loop of check_ip_format over the records from position i on: FALSE at
\* the first record that conflicts, and FALSE when a record's text is no
\* network (IPv4Network raises ValueError, which check_ip_format catches).
\* One round of the loop of check_ip_format: the record is a network and
\* the candidate address does not conflict with it.
Passes(a, net) == IF ~net.ok THEN FALSE ELSE ~Conflicts(a, net)

RECURSIVE CheckFrom(_, _, _)
CheckFrom(a, db, i) ==
    IF i > Len(db) THEN TRUE
    ELSE IF ~Passes(a, IPv4Network(db[i])) THEN FALSE
    ELSE CheckFrom(a, db, i + 1)

\* Interface.check_ip_format against the ledger db.  The text checked is
\* ip_to_check[:ip_to_check.find("/")]: everything before the first '/', or,
\* when there is no '/', everything but the last character.
\* check_ip_format once the candidate address is parsed.
CheckAddress(ipv4_address, db) ==
    IF ~ipv4_address.ok THEN FALSE ELSE CheckFrom(ipv4_address, db, 1)

check_ip_format(ip_to_check, db) ==
    CheckAddress(IPv4Address(SliceTo(ip_to_check, Find(ip_to_check, "/"))), db)

\* Interface.get_next_ip_address: the first host of the network, None when
\* the text is no network.
\* The first host of a parsed network as text, None for ValueError.
FirstHostText(network) == IF ~network.ok THEN None ELSE AddrStr(FirstHost(network))

get_next_ip_address(network_address) == FirstHostText(IPv4Network(network_address))

\* The condition the prompt loops for an address end on: the text is one
\* check_ip_format accepts against the ledger and that has a first host.
AcceptedAgainst(ip, db) == check_ip_format(ip, db) /\ get_next_ip_address(ip) # None

\* DB_FILE.remove(where('ip_address') == text): every record with that text.
RemoveAll(db, text) == SelectSeq(db, LAMBDA r : r # text)

\* The removing loop of edit_db from position i on: the first record whose
\* network contains the address is removed and the loop ends.  A record or
\* an address that does not parse raises ValueError out of edit_db.
RECURSIVE ReleaseFrom(_, _, _)
RECURSIVE ReleaseAt(_, _, _, _, _)
\* One round of the removing loop, for the parsed address and record.
ReleaseAt(a, net, ip_address, db, i) ==
    IF ~a.ok \/ ~net.ok
    THEN [db |-> db, raised |-> TRUE]
    ELSE IF InNet(a, net)
    THEN [db |-> RemoveAll(db, db[i]), raised |-> FALSE]
    ELSE ReleaseFrom(ip_address, db, i + 1)

ReleaseFrom(ip_address, db, i) ==
    IF i > Len(db) THEN [db |-> db, raised |-> FALSE]
    ELSE ReleaseAt(IPv4Address(ip_address), IPv4Network(db[i]), ip_address, db, i)

\* edit_db adding only what check_ip_format accepts at that moment.
edit_db_checked(ip_address, add_to_db, db) ==
    IF add_to_db /\ ~check_ip_format(ip_address, db) THEN [db |-> db, raised |-> FALSE]
    ELSE IF add_to_db THEN [db |-> Append(db, ip_address), raised |-> FALSE]
    ELSE ReleaseFrom(ip_address, db, 1)

\* Interface.edit_db: the ledger afterwards, and whether the call raised.
edit_db(ip_address, add_to_db, db) ==
    IF add_to_db THEN [db |-> Append(db, ip_address), raised |-> FALSE]
    ELSE ReleaseFrom(ip_address, db, 1)

\* ip_interface(text).netmask.compressed for a /p network: the dotted mask.
MaskOctet(bits) == 256 - 2 ^ (8 - bits)

\* The k-th octet of the mask of a /p network.
MaskField(p, k) ==
    IF p >= 8 * k THEN 255
    ELSE IF p <= 8 * (k - 1) THEN 0
    ELSE MaskOctet(p - 8 * (k - 1))

MaskStr(p) ==
    IntStr(MaskField(p, 1)) \o "." \o IntStr(MaskField(p, 2)) \o "." \o
    IntStr(MaskField(p, 3)) \o "." \o IntStr(MaskField(p, 4))

\* Interface.calculate_subnet_mask, called only on a text that
\* get_next_ip_address accepted.
calculate_subnet_mask(ip_with_subnet) == MaskStr(IPv4Network(ip_with_subnet).plen)

(***************************************************************************)
(* More text: substring test, str.replace(" ", ""), str.capitalize(), and  *)
(* the regular expressions of the program.                                 *)
(***************************************************************************)

\* sub in s
Contains(s, sub) ==
    \E i \in 1..(Len(s) - Len(sub) + 1) : SubSeq(s, i, i + Len(sub) - 1) = sub

\* s.find(sub): the index of the first occurrence, counted from 0; -1 if none.
\* The least of the 1-based positions hits, counted from 0; -1 if none.
FirstOf(hits) == IF hits = {} THEN -1 ELSE (CHOOSE i \in hits : \A j \in hits : i <= j) - 1

FindSub(s, sub) ==
    FirstOf({i \in 1..(Len(s) - Len(sub) + 1) : SubSeq(s, i, i + Len(sub) - 1) = sub})

\* s.replace(" ", "")
RemoveSpaces(s) ==
    LET kept[i \in 0..Len(s)] ==
            IF i = 0 THEN ""
            ELSE kept[i - 1] \o (IF CharAt(s, i) = " " THEN "" ELSE CharAt(s, i))
    IN  kept[Len(s)]

LowerLetters == "abcdefghijklmnopqrstuvwxyz"
UpperLetters == "ABCDEFGHIJKLMNOPQRSTUVWXYZ"

\* The letter at 0-based position k of letters, c itself when k is -1.
Swap(c, k, letters) == IF k = -1 THEN c ELSE CharAt(letters, k + 1)

ToUpper(c) == Swap(c, Find(LowerLetters, c), UpperLetters)
ToLower(c) == Swap(c, Find(UpperLetters, c), LowerLetters)

LowerAll(s) ==
    LET low[i \in 0..Len(s)] ==
            IF i = 0 THEN "" ELSE low[i - 1] \o ToLower(CharAt(s, i))
    IN  low[Len(s)]

\* str.capitalize(): first character upper case, the rest lower case.
Capitalize(s) == IF Len(s) = 0 THEN "" ELSE ToUpper(CharAt(s, 1)) \o LowerAll(SliceFrom(s, 1))

\* Number of digits at the start of s[i..], counted up to 4.
DigitRun(s, i) ==
    CHOOSE n \in 0..4 :
        /\ \A k \in 0..(n - 1) : i + k <= Len(s) /\ CharAt(s, i + k) \in Digits
        /\ (n = 4 \/ i + n > Len(s) \/ CharAt(s, i + n) \notin Digits)

\* A group [0-9]{1,3}\. starts at position i: where the next group starts,
\* 0 if it does not match.  The group must be followed by a dot, so it is the
\* whole run of digits.
\* Where the next group starts after a run of r digits at i and a dot.
GroupEnd(s, i, r) ==
    IF i = 0 \/ r = 0 \/ r > 3 \/ i + r > Len(s) \/ CharAt(s, i + r) # "." THEN 0
    ELSE i + r + 1

DottedGroup(s, i) == GroupEnd(s, i, DigitRun(s, i))

\* Where a match of [0-9]{1,3}\.[0-9]{1,3}\.[0-9]{1,3}\.[0-9]{1,3} that
\* starts at position i ends, 0 if none starts there.  The last group takes
\* up to 3 digits.
\* The end of a match whose last group starts at i4 with a run of r digits.
LastGroupEnd(i4, r) == IF r = 0 THEN 0 ELSE i4 + (IF r > 3 THEN 3 ELSE r) - 1

\* The end of a match whose last group starts at i4, 0 if i4 is 0.
LastGroup(s, i4) == LastGroupEnd(i4, IF i4 = 0 THEN 0 ELSE DigitRun(s, i4))

IpMatchEnd(s, i) == LastGroup(s, DottedGroup(s, DottedGroup(s, DottedGroup(s, i))))

\* Interface.get_all_ip_addresses: re.findall of the pattern above, the
\* matches from left to right without overlap.
\* The first position from i on where a match starts, 0 if there is none.
NextIp(s, i) == FirstOf({j \in i..Len(s) : IpMatchEnd(s, j) # 0}) + 1

FindIps(s) ==
    LET found[i \in 0..Len(s)] ==
            IF i = 0 THEN <<>>
            ELSE <<SubSeq(s, i, IpMatchEnd(s, i))>> \o found[NextIp(s, IpMatchEnd(s, i) + 1)]
    IN  found[NextIp(s, 1)]

get_all_ip_addresses(string_of_ip_addresses) == FindIps(string_of_ip_addresses)

(***************************************************************************)
(* The device, as far as the handlers read it: its interfaces in the order *)
(* the device lists them and its DHCP pools.  An interface is              *)
(* [interface, ip, mask, desc, vlan_id]; ip is "" (no address), "dhcp" or  *)
(* a dotted address.  A pool is [name, subnets], a subnet [ip, mask].      *)
(***************************************************************************)

\* Rows of 'show interfaces' parsed with textfsm: interface and vlan_id.
ShowInterfaces(dev) ==
    [k \in 1..Len(dev.interfaces) |->
        [interface |-> dev.interfaces[k].interface,
         vlan_id   |-> dev.interfaces[k].vlan_id]]

\* The text of one interface stanza of the running configuration.
Stanza(f) ==
    "interface " \o f.interface \o "\n"
    \o (IF f.desc = "" THEN "" ELSE " description " \o f.desc \o "\n")
    \o (IF f.vlan_id = "" THEN "" ELSE " encapsulation dot1Q " \o f.vlan_id \o "\n")
    \o (IF f.ip = "" THEN " no ip address\n"
        ELSE IF f.ip = "dhcp" THEN " ip address dhcp\n"
        ELSE " ip address " \o f.ip \o " " \o f.mask \o "\n")
    \o "end\n"

\* Output of 'show run interface <name>': the stanza after the device's
\* preamble, or the device's error line when it has no such interface.
ShowRunInterface(dev, name) ==
    IF \A k \in 1..Len(dev.interfaces) : dev.interfaces[k].interface # name
    THEN "% Invalid input detected at '^' marker.\n"
    ELSE "Building configuration...\n!\n"
         \o Stanza(dev.interfaces[CHOOSE k \in 1..Len(dev.interfaces) :
                                      dev.interfaces[k].interface = name])

\* The names of the rows, in their order.
Names(rows) == [k \in 1..Len(rows) |-> rows[k].interface]

\* The members of a list.
Members(list) == {list[k] : k \in 1..Len(list)}

\* Interface.get_all_interfaces_of_type: the rows of the family.  Physical
\* collects, prefix by prefix, the rows whose name contains the prefix and no
\* dot; Vlan the rows with a dot; any other family the rows whose name
\* contains the family's name.
PhysicalPrefixes == <<"Ethernet", "Serial", "BRI">>

RECURSIVE PhysicalRows(_, _)
PhysicalRows(all_interfaces, k) ==
    IF k > Len(PhysicalPrefixes) THEN <<>>
    ELSE SelectSeq(all_interfaces,
                   LAMBDA r : Contains(r.interface, PhysicalPrefixes[k])
                              /\ ~Contains(r.interface, "."))
         \o PhysicalRows(all_interfaces, k + 1)

\* The rows of the family when the rows with a dot are not left out of
\* Physical.
get_all_interfaces_with_dots(interface_type, all_interfaces) ==
    IF interface_type = "Physical"
    THEN SelectSeq(all_interfaces,
                   LAMBDA r : \E k \in 1..Len(PhysicalPrefixes) :
                                 Contains(r.interface, PhysicalPrefixes[k]))
    ELSE IF interface_type = "Vlan"
    THEN SelectSeq(all_interfaces, LAMBDA r : Contains(r.interface, "."))
    ELSE SelectSeq(all_interfaces, LAMBDA r : Contains(r.interface, interface_type))

get_all_interfaces_of_type(interface_type, all_interfaces) ==
    IF interface_type = "Physical" THEN PhysicalRows(all_interfaces, 1)
    ELSE IF interface_type = "Vlan"
    THEN SelectSeq(all_interfaces, LAMBDA r : Contains(r.interface, "."))
    ELSE SelectSeq(all_interfaces, LAMBDA r : Contains(r.interface, interface_type))

\* Interface.check_name: TRUE when no interface of the family has the name
\* (spaces removed, capitalized).
\* No row of the family has the name.
NoRowNamed(rows, name) == \A k \in 1..Len(rows) : rows[k].interface # name

\* The test on the name as it was typed.
check_name_raw(name_to_check, interface_type, dev) ==
    NoRowNamed(get_all_interfaces_of_type(interface_type, ShowInterfaces(dev)),
               name_to_check)

check_name(name_to_check, interface_type, dev) ==
    NoRowNamed(get_all_interfaces_of_type(interface_type, ShowInterfaces(dev)),
               Capitalize(RemoveSpaces(name_to_check)))

\* Interface.generate_commands: the command batch Base.j2 renders from the
\* command data.  The template is read from the template directory at run
\* time, so the batch is kept as the template's name and the data it gets.
generate_commands(command_data) == [template |-> "Base.j2", config |-> command_data]

\* A batch of literal command lines.
Literal(lines) == [template |-> "", config |-> lines]

\* Session.send_config_commands, the device's side, for the command data of
\* a basic interface: the interface named d.name (as the device spells it)
\* carries the address afterwards.
\* The device with interface f configured: added, or replacing the
\* interface of the same name.
Configure(dev, f) ==
    IF \A k \in 1..Len(dev.interfaces) : dev.interfaces[k].interface # f.interface
    THEN [dev EXCEPT !.interfaces = Append(@, f)]
    ELSE [dev EXCEPT !.interfaces =
             [k \in 1..Len(@) |-> IF @[k].interface = f.interface THEN f ELSE @[k]]]

ApplyBasic(dev, d) ==
    Configure(dev, [interface |-> Capitalize(RemoveSpaces(d.name)),
                    ip        |-> IF d.ip \in {"", "dhcp"} THEN "dhcp" ELSE d.ip,
                    mask      |-> IF d.ip \in {"", "dhcp"} THEN "" ELSE d.mask,
                    desc      |-> d.desc,
                    vlan_id   |-> ""])

(***************************************************************************)
(* State.  DB_FILE is the ledger, device the device, and last records what *)
(* the latest handler did: its name, the input path, the address text and  *)
(* the name it was given, the command batches it sent, the texts it        *)
(* reserved and the addresses it released, the order of these calls (log), *)
(* the number the operator chose a pool by (choice), the exception a       *)
(* handler ended with, "send" for one out of send_config_commands (error), *)
(* the family a view was                                                   *)
(* asked for and the names it listed (family, listed), the number a        *)
(* sub-interface was asked for (vlan), and how it ended.                   *)
(* calls counts                                                            *)
(* the handlers the device menu of Main.run has called.                    *)
(*                                                                         *)
(* The session: pc is where Main.run stands (scanning for a device, inside *)
(* make_connection, at the device menu, or ended by an exception),         *)
(* session_details the connection parameters, net_connect the connection   *)
(* handle, attempts the ConnectHandler calls of the current session with   *)
(* their dialect and outcome, output the answer to 'show ver', returned    *)
(* what make_connection returned, printed what it reported, and rounds the *)
(* sessions Main.run has built.  workflow holds, where several runs of the *)
(* program share the ledger and the device, each run's place in            *)
(* Interface.create and what it was given so far.  template_env is the     *)
(* template the Jinja environment loads, as its literal pieces and fields. *)
(***************************************************************************)
VARIABLES DB_FILE, device, last, calls,
          pc, session_details, net_connect, attempts, output, returned, printed, rounds,
          workflow, template_env

hvars == <<DB_FILE, device, last, calls>>
cvars == <<pc, session_details, net_connect, attempts, output, returned, printed, rounds,
          workflow, template_env>>
vars == <<DB_FILE, device, last, calls,
          pc, session_details, net_connect, attempts, output, returned, printed, rounds,
          workflow, template_env>>

\* Largest number of handlers the device menu calls in a run.
MaxCalls == 3

\* The address texts the operator types or the input file holds: two
\* networks of which the first lies inside the second, a network with host
\* bits set, and the DHCP sentinel, which is no address.
IpTexts == {"10.0.0.128/25", "10.0.0.0/24", "10.0.0.5/24", "dhcp"}

\* What the operator types or the input file holds besides addresses.
LoopbackNames == {"Loopback0", "loopback 0"}
Descriptions == {"test"}
Choices == {1, 2, -1}

NoOp == [op |-> "none", path |-> "none", ip |-> "", name |-> "", adding |-> FALSE,
         sent |-> <<>>, reserved |-> <<>>, released |-> <<>>, log |-> <<>>,
         choice |-> 0, error |-> "", family |-> "", listed |-> <<>>, vlan |-> "",
         rendered |-> "", commands |-> <<>>, response |-> -1, console_or_file |-> 0,
         outcome |-> "returned"]

InitDevice ==
    [interfaces |->
        <<[interface |-> "Ethernet0/0", ip |-> "", mask |-> "", desc |-> "", vlan_id |-> ""],
          [interface |-> "Serial1/0", ip |-> "", mask |-> "", desc |-> "", vlan_id |-> ""]>>,
     pools |-> <<>>]

\* UserInput.get_device_details, without the credentials typed.
get_device_details(device_ip_address) ==
    [device_type |-> "cisco_ios", host |-> device_ip_address, port |-> 22]

\* UserInput.get_devices_in_network
get_devices_in_network == <<"192.168.100.1", "192.168.200.1">>

InitHandlers ==
    /\ DB_FILE = <<>>
    /\ device = InitDevice
    /\ last = NoOp
    /\ calls = 0

\* The handlers start at the device menu: make_connection has returned True
\* on a device that answered in the default dialect.
Init ==
    /\ InitHandlers
    /\ pc = "menu"
    /\ session_details = get_device_details(get_devices_in_network[1])
    /\ net_connect = "connected"
    /\ attempts = <<[device_type |-> "cisco_ios", outcome |-> "ok"]>>
    /\ output = "Cisco IOS Software"
    /\ returned = "True"
    /\ printed = ""
    /\ rounds = 1
    /\ workflow = <<>>
    /\ template_env = <<>>

\* The tail of the other creates as it would be if the text were reserved
\* before the batch is sent.
ReserveAndSend(call, batch, reserve, reserved, dev2) ==
    \E send_ok \in BOOLEAN :
        /\ calls' = calls + 1
        /\ UNCHANGED cvars
        /\ DB_FILE' = IF reserve THEN edit_db(reserved, TRUE, DB_FILE).db ELSE DB_FILE
        /\ IF send_ok
           THEN /\ device' = dev2
                /\ last' = [call EXCEPT !.sent = <<batch>>,
                                        !.reserved = IF reserve THEN <<reserved>> ELSE <<>>,
                                        !.log = IF reserve THEN <<"reserve", "send">>
                                                ELSE <<"send">>]
           ELSE /\ device' = device
                /\ last' = [call EXCEPT !.reserved = IF reserve THEN <<reserved>> ELSE <<>>,
                                        !.log = IF reserve THEN <<"reserve">> ELSE <<>>,
                                        !.error = "send", !.outcome = "raised"]

\* The tail of the other creates: the batch is sent, and when that did not
\* raise, the text is reserved (edit_db with add_to_db = True) if the handler
\* reserves.  call is the handler's record so far, dev2 the device after the
\* batch; send_config_commands returns or raises (error "send").
SendAndReserve(call, batch, reserve, reserved, dev2) ==
    \E send_ok \in BOOLEAN :
        /\ calls' = calls + 1
        /\ UNCHANGED cvars
        /\ IF send_ok
           THEN /\ DB_FILE' = IF reserve THEN edit_db(reserved, TRUE, DB_FILE).db ELSE DB_FILE
                /\ device' = dev2
                /\ last' = [call EXCEPT !.sent = <<batch>>,
                                        !.reserved = IF reserve THEN <<reserved>> ELSE <<>>,
                                        !.log = IF reserve THEN <<"send", "reserve">>
                                                ELSE <<"send">>]
           ELSE /\ UNCHANGED <<DB_FILE, device>>
                /\ last' = [call EXCEPT !.error = "send", !.outcome = "raised"]

\* The tail of Interface.create as it would be if the text were reserved
\* only for an interface that answers the ping.
SendPingReserveIfReachable(call, batch, reserved, dev2) ==
    \E send_ok \in BOOLEAN, response \in {0, 1} :
        /\ calls' = calls + 1
        /\ UNCHANGED cvars
        /\ IF send_ok
           THEN /\ DB_FILE' = IF response = 0 THEN edit_db(reserved, TRUE, DB_FILE).db
                               ELSE DB_FILE
                /\ device' = dev2
                /\ last' = [call EXCEPT !.sent = <<batch>>,
                                        !.response = response,
                                        !.reserved = IF response = 0 THEN <<reserved>> ELSE <<>>,
                                        !.log = IF response = 0
                                                THEN <<"send", "ping", "reserve", "show">>
                                                ELSE <<"send", "ping", "show">>]
           ELSE /\ UNCHANGED <<DB_FILE, device>>
                /\ last' = [call EXCEPT !.error = "send", !.outcome = "raised"]

\* The tail of Interface.create: the batch is sent, and when that did not
\* raise, the new address is pinged (the exit status of ping is 0 or not),
\* the text is reserved and the family is listed again.
SendPingReserveShow(call, batch, reserved, dev2) ==
    \E send_ok \in BOOLEAN, response \in {0, 1} :
        /\ calls' = calls + 1
        /\ UNCHANGED cvars
        /\ IF send_ok
           THEN /\ DB_FILE' = edit_db(reserved, TRUE, DB_FILE).db
                /\ device' = dev2
                /\ last' = [call EXCEPT !.sent = <<batch>>,
                                        !.response = response,
                                        !.reserved = <<reserved>>,
                                        !.log = <<"send", "ping", "reserve", "show">>]
           ELSE /\ UNCHANGED <<DB_FILE, device>>
                /\ last' = [call EXCEPT !.error = "send", !.outcome = "raised"]

\* A handler that returns or raises without sending or reserving anything.
Nothing(call, outcome) ==
    /\ UNCHANGED <<DB_FILE, device>>
    /\ last' = [call EXCEPT !.outcome = outcome]
    /\ calls' = calls + 1
    /\ UNCHANGED cvars

\* The record of a handler that was given the address text ip on a path.
Call(op, path, ip) == [NoOp EXCEPT !.op = op, !.path = path, !.ip = ip]

\* The record of a create handler whose prompt 'console or input file' was
\* answered with console_or_file (-1 for an input that is no number).
Chose(console_or_file, op, path, ip) ==
    [Call(op, path, ip) EXCEPT !.console_or_file = console_or_file]

\* The value None where a handler expects a tuple of command data and
\* reserved text; a tuple has ok set.
NoTuple == [ok |-> FALSE]

\* Interface.create_using_console: the address text and the name the two
\* prompt loops end with, as the command data and the text to reserve.  The
\* loops only end on a text that check_ip_format accepts and that has a first
\* host, and on a name that check_name accepts.
create_using_console(user_ip, name, description) ==
    [ok |-> TRUE,
     interface_data |-> [name |-> name, ip |-> get_next_ip_address(user_ip),
                         desc |-> description,
                         mask |-> calculate_subnet_mask(user_ip), type |-> "basic"],
     user_ip |-> user_ip]

\* Interface.yaml_creation as it would be without the call of
\* check_ip_format: the variant C4_CheckedBeforeCreate has to tell apart.
yaml_creation_unchecked(y, interface_type, db, dev) ==
    IF get_next_ip_address(y.ip) # None /\ check_name(y.name, interface_type, dev)
    THEN [ok |-> TRUE,
          interface_data |-> [name |-> y.name, ip |-> get_next_ip_address(y.ip),
                              desc |-> y.desc,
                              mask |-> calculate_subnet_mask(y.ip),
                              type |-> "basic"],
          user_ip |-> y.ip]
    ELSE NoTuple

\* Interface.yaml_creation: None, or the command data and the text to
\* reserve, from the record the input file holds for the family.
yaml_creation(y, interface_type, db, dev) ==
    IF check_ip_format(y.ip, db)
    THEN IF get_next_ip_address(y.ip) # None
         THEN IF check_name(y.name, interface_type, dev)
              THEN [ok |-> TRUE,
                    interface_data |-> [name |-> y.name, ip |-> get_next_ip_address(y.ip),
                                        desc |-> y.desc,
                                        mask |-> calculate_subnet_mask(y.ip),
                                        type |-> "basic"],
                    user_ip |-> y.ip]
              ELSE NoTuple
         ELSE NoTuple
    ELSE NoTuple

\* Interface.create for the Loopback family.
Create ==
    /\ pc = "menu"
    /\ calls < MaxCalls
    /\ \E interface_user_choice \in Choices :
         \/ /\ interface_user_choice = -1
            /\ Nothing(Chose(-1, "create", "none", ""), "returned")
         \/ /\ interface_user_choice = 1
            /\ \E user_ip \in IpTexts, name \in LoopbackNames, d \in Descriptions :
                 /\ check_ip_format(user_ip, DB_FILE)
                 /\ get_next_ip_address(user_ip) # None
                 /\ check_name(name, "Loopback", device)
                 /\ \E t \in {create_using_console(user_ip, name, d)} :
                        SendPingReserveShow([Chose(1, "create", "console", user_ip)
                                               EXCEPT !.name = name],
                                            generate_commands(t.interface_data), t.user_ip,
                                            ApplyBasic(device, t.interface_data))
         \/ /\ interface_user_choice = 2
            /\ \E ip \in IpTexts, name \in LoopbackNames, d \in Descriptions :
                 \E t \in {yaml_creation([ip |-> ip, name |-> name, desc |-> d],
                                          "Loopback", DB_FILE, device)} :
                     IF ~t.ok
                     THEN Nothing([Chose(2, "create", "file", ip) EXCEPT !.name = name],
                                  "returned")
                     ELSE SendPingReserveShow([Chose(2, "create", "file", ip)
                                                 EXCEPT !.name = name],
                                              generate_commands(t.interface_data), t.user_ip,
                                              ApplyBasic(device, t.interface_data))

\* A Python list index: the element of list at index i, counted from the end
\* when i is negative; IndexError when there is none.
IndexError == [ok |-> FALSE]

\* The element at 1-based position k, IndexError when there is none.
ItemAt(list, k) ==
    IF k < 1 \/ k > Len(list) THEN IndexError ELSE [ok |-> TRUE, item |-> list[k]]

PyIndex(list, i) == ItemAt(list, IF i < 0 THEN Len(list) + i + 1 ELSE i + 1)

\* What validate_input_int(1, n) can return: a number of the range, or -1
\* for an input that is no number.
Selections(n) == (1..n) \cup {-1}

\* Physical.check_in_use: TRUE (not in use) when the interface's running
\* configuration holds neither "dhcp" nor an address literal.
\* The running configuration holds neither "dhcp" nor an address literal.
NoAddressIn(details) ==
    IF ~Contains(details, "dhcp")
    THEN Len(get_all_ip_addresses(details)) = 0
    ELSE FALSE

\* A test that finds every interface free.
check_in_use_always(interface_name, dev) == TRUE

check_in_use(interface_name, dev) == NoAddressIn(ShowRunInterface(dev, interface_name))

\* Physical.yaml_creation: the file's address is not passed to
\* check_ip_format.
physical_yaml_creation(y, dev) ==
    IF check_in_use(y.name, dev)
    THEN IF y.ip # "dhcp"
         THEN IF get_next_ip_address(y.ip) # None
              THEN [ok |-> TRUE,
                    interface_data |-> [name |-> y.name, ip |-> get_next_ip_address(y.ip),
                                        desc |-> y.desc,
                                        mask |-> calculate_subnet_mask(y.ip),
                                        type |-> "basic"],
                    user_ip |-> y.ip]
              ELSE NoTuple
         ELSE [ok |-> TRUE,
               interface_data |-> [name |-> y.name, ip |-> "dhcp", desc |-> y.desc,
                                   mask |-> "", type |-> "basic"],
               user_ip |-> ""]
    ELSE NoTuple

\* Physical.assign_using_console, for the text its prompt loop ends with:
\* "dhcp", or a text check_ip_format accepts and that has a first host.
assign_using_console(interface_name, user_ip, description) ==
    [ok |-> TRUE,
     interface_data |-> [name |-> interface_name,
                         ip   |-> IF user_ip = "dhcp" THEN "" ELSE get_next_ip_address(user_ip),
                         desc |-> description,
                         mask |-> IF user_ip = "dhcp" THEN "" ELSE calculate_subnet_mask(user_ip),
                         type |-> "basic"],
     user_ip |-> user_ip]

\* Physical.assign.  A choice that is no number takes the input-file branch;
\* the console branch with an interface in use leaves the empty tuple, whose
\* first element does not exist.
Assign ==
    /\ pc = "menu"
    /\ calls < MaxCalls
    /\ \E list_of_interfaces \in
              {get_all_interfaces_of_type("Physical", ShowInterfaces(device))} :
             \/ /\ \E console_or_file \in Choices : console_or_file = 1
                /\ \E interface_index \in Selections(Len(list_of_interfaces)) :
                     \E chosen \in {PyIndex(list_of_interfaces, interface_index - 1)} :
                         IF ~chosen.ok
                         THEN Nothing(Chose(1, "assign", "console", ""), "raised")
                         ELSE IF ~check_in_use(chosen.item.interface, device)
                         THEN Nothing([Chose(1, "assign", "console", "")
                                         EXCEPT !.name = chosen.item.interface], "raised")
                         ELSE \E user_ip \in IpTexts, d \in Descriptions :
                                /\ \/ user_ip = "dhcp"
                                   \/ /\ check_ip_format(user_ip, DB_FILE)
                                      /\ get_next_ip_address(user_ip) # None
                                /\ \E t \in {assign_using_console(chosen.item.interface,
                                                                  user_ip, d)} :
                                       SendAndReserve([Chose(1, "assign", "console", user_ip)
                                                         EXCEPT !.name = chosen.item.interface],
                                                      generate_commands(t.interface_data),
                                                      t.user_ip # "", t.user_ip,
                                                      ApplyBasic(device, t.interface_data))
             \/ \E console_or_file \in Choices \ {1} :
                   \E k \in 1..Len(list_of_interfaces), ip \in IpTexts, d \in Descriptions :
                     \E t \in {physical_yaml_creation(
                                 [name |-> list_of_interfaces[k].interface, ip |-> ip,
                                  desc |-> d], device)} :
                         IF ~t.ok
                         THEN Nothing([Chose(console_or_file, "assign", "file", ip)
                                         EXCEPT !.name = list_of_interfaces[k].interface],
                                      "returned")
                         ELSE SendAndReserve([Chose(console_or_file, "assign", "file", ip)
                                                EXCEPT !.name = list_of_interfaces[k].interface],
                                             generate_commands(t.interface_data),
                                             t.user_ip # "", t.user_ip,
                                             ApplyBasic(device, t.interface_data))

\* Vlan.check_vlan_in_use: TRUE when no sub-interface row has the number on
\* an interface whose name contains interface_name.
check_vlan_in_use(vlan_number, interface_name, list_of_vlans) ==
    \A k \in 1..Len(list_of_vlans) :
        ~(vlan_number = list_of_vlans[k].vlan_id
          /\ Contains(list_of_vlans[k].interface, interface_name))

\* Vlan.create_vlan_using_console, for the port chosen, and for the number
\* and the address text its two prompt loops end with.
create_vlan_using_console(interface_to_assign, vlan_number, user_ip) ==
    [ok |-> TRUE,
     interface_data |-> [name |-> interface_to_assign \o "." \o vlan_number,
                         vlan |-> vlan_number,
                         ip   |-> IF user_ip = "dhcp" THEN user_ip
                                  ELSE get_next_ip_address(user_ip),
                         mask |-> IF user_ip = "dhcp" THEN ""
                                  ELSE calculate_subnet_mask(user_ip),
                         type |-> "advanced"],
     user_ip |-> user_ip]

\* Vlan.yaml_creation_vlan: None, or the command data and the text to
\* reserve, from the record the input file holds for the family.
yaml_creation_vlan(y, list_of_vlans, db) ==
    IF check_vlan_in_use(y.vlan, y.name, list_of_vlans)
    THEN IF y.ip # "dhcp"
         THEN IF check_ip_format(y.ip, db)
              THEN IF get_next_ip_address(y.ip) # None
                   THEN [ok |-> TRUE,
                         interface_data |-> [name |-> y.name \o "." \o y.vlan,
                                             vlan |-> y.vlan,
                                             ip   |-> get_next_ip_address(y.ip),
                                             mask |-> calculate_subnet_mask(y.ip),
                                             type |-> "advanced"],
                         user_ip |-> y.ip]
                   ELSE NoTuple
              ELSE NoTuple
         ELSE [ok |-> TRUE,
               interface_data |-> [name |-> y.name \o "." \o y.vlan, vlan |-> y.vlan,
                                   ip |-> "dhcp", mask |-> "", type |-> "advanced"],
               user_ip |-> ""]
    ELSE NoTuple

\* Session.send_config_commands, the device's side, for the command data of
\* a sub-interface: the sub-interface carries the number and the address.
ApplyAdvanced(dev, d) ==
    Configure(dev, [interface |-> d.name,
                    ip        |-> d.ip,
                    mask      |-> d.mask,
                    desc      |-> "",
                    vlan_id   |-> d.vlan])

\* The numbers the operator types or the input file holds for a
\* sub-interface; the file names one of the device's Ethernet ports.
VlanNumbers == {"10"}

\* Vlan.create_vlan.  Any choice but 1 takes the input-file branch; the text
\* is reserved when the command data's address is not "dhcp".
CreateVlan ==
    /\ pc = "menu"
    /\ calls < MaxCalls
    /\ \E list_of_vlans \in {get_all_interfaces_of_type("Vlan", ShowInterfaces(device))},
          list_of_physical_interfaces \in
              {get_all_interfaces_of_type("Physical", ShowInterfaces(device))} :
         \E formatted_interfaces \in
              {SelectSeq(list_of_physical_interfaces,
                         LAMBDA r : Contains(r.interface, "Ethernet"))} :
             \/ /\ \E interface_user_choice \in Choices : interface_user_choice = 1
                /\ \E interface_index \in Selections(Len(formatted_interfaces)) :
                     \E chosen \in {PyIndex(formatted_interfaces, interface_index - 1)} :
                         IF ~chosen.ok
                         THEN Nothing(Chose(1, "create_vlan", "console", ""), "raised")
                         ELSE \E vlan_number \in VlanNumbers, user_ip \in IpTexts :
                                /\ check_vlan_in_use(vlan_number, chosen.item.interface,
                                                     list_of_vlans)
                                /\ \/ user_ip = "dhcp"
                                   \/ /\ check_ip_format(user_ip, DB_FILE)
                                      /\ get_next_ip_address(user_ip) # None
                                /\ \E t \in {create_vlan_using_console(chosen.item.interface,
                                                                       vlan_number, user_ip)} :
                                       SendAndReserve([Chose(1, "create_vlan", "console", user_ip)
                                                         EXCEPT !.name = chosen.item.interface,
                                                                !.vlan = vlan_number],
                                                      generate_commands(t.interface_data),
                                                      t.interface_data.ip # "dhcp", t.user_ip,
                                                      ApplyAdvanced(device, t.interface_data))
             \/ \E console_or_file \in Choices \ {1} :
                   \E name \in Members(Names(formatted_interfaces)),
                      vlan \in VlanNumbers, ip \in IpTexts :
                     \E t \in {yaml_creation_vlan([name |-> name, vlan |-> vlan, ip |-> ip],
                                                   list_of_vlans, DB_FILE)},
                        call \in {[Chose(console_or_file, "create_vlan", "file", ip)
                                     EXCEPT !.name = name, !.vlan = vlan]} :
                         IF ~t.ok
                         THEN Nothing(call, "returned")
                         ELSE SendAndReserve(call,
                                             generate_commands(t.interface_data),
                                             t.interface_data.ip # "dhcp", t.user_ip,
                                             ApplyAdvanced(device, t.interface_data))

\* The last address of the network before its broadcast address.
Pred(a) == IF a.lo = 0 THEN [ok |-> TRUE, hi |-> a.hi - 1, lo |-> Half - 1]
           ELSE [ok |-> TRUE, hi |-> a.hi, lo |-> a.lo - 1]

LastHost(n) == IF n.plen >= 31 THEN Broadcast(n) ELSE Pred(Broadcast(n))

\* Output of 'show ip dhcp pool': for every pool its heading and one line per
\* subnet with the current index and the address range.
SubnetLine(sub) ==
    " " \o sub.first \o "             " \o sub.first \o "         - " \o sub.last \o "\n"

RECURSIVE SubnetLines(_, _)
SubnetLines(subnets, k) ==
    IF k > Len(subnets) THEN ""
    ELSE SubnetLine(subnets[k]) \o SubnetLines(subnets, k + 1)

PoolText(pool) ==
    "Pool " \o pool.name \o " :\n"
    \o " Current index        IP address range                    Leased addresses\n"
    \o SubnetLines(pool.subnets, 1)

RECURSIVE PoolTexts(_, _)
PoolTexts(pools, k) ==
    IF k > Len(pools) THEN "" ELSE PoolText(pools[k]) \o PoolTexts(pools, k + 1)

ShowIpDhcpPool(dev) == PoolTexts(dev.pools, 1)

\* re.findall(r'Pool [0-9]+', text): the matches from left to right.
DigitsFrom(s, i) ==
    CHOOSE n \in 0..(Len(s) - i + 1) :
        /\ \A k \in 0..(n - 1) : CharAt(s, i + k) \in Digits
        /\ (i + n > Len(s) \/ CharAt(s, i + n) \notin Digits)

\* The first position from i on where a match starts, 0 if there is none.
NextPool(s, i) ==
    FirstOf({j \in i..(Len(s) - 5) :
                SubSeq(s, j, j + 4) = "Pool " /\ DigitsFrom(s, j + 5) > 0}) + 1

FindPools(s) ==
    LET found[i \in 0..Len(s)] ==
            IF i = 0 THEN <<>>
            ELSE <<SubSeq(s, i, i + 4 + DigitsFrom(s, i + 5))>>
                 \o found[NextPool(s, i + 5 + DigitsFrom(s, i + 5))]
    IN  found[NextPool(s, 1)]

\* DHCP.check_pool_number: TRUE when no pool heading contains the text.
\* No pool heading contains the text.
NoPoolHolds(list_of_pools, pool_number) ==
    \A k \in 1..Len(list_of_pools) : ~Contains(list_of_pools[k], pool_number)

check_pool_number(pool_number, dev) ==
    NoPoolHolds(FindPools(ShowIpDhcpPool(dev)), pool_number)

\* DHCP.create_dhcp_using_console once the pool number is known, for the
\* address text its prompt loop ends with.
create_dhcp_using_console(user_choice, pool_number, ip_subnet) ==
    [ok |-> TRUE,
     interface_data |-> [name |-> pool_number,
                         ip   |-> SliceTo(ip_subnet, Find(ip_subnet, "/")),
                         mask |-> IF user_choice = 2
                                  THEN calculate_subnet_mask(ip_subnet) \o " secondary"
                                  ELSE calculate_subnet_mask(ip_subnet),
                         default_router |-> get_next_ip_address(ip_subnet),
                         type |-> "DHCP"],
     user_ip |-> ip_subnet]

\* The exceptions a handler lets through, where it expects a tuple.
Raised(error) == [ok |-> FALSE, error |-> error]

\* DHCP.yaml_creation.  y.mask is None when the file's record has no mask.
\* A pool that does not exist and an address that fails validation are
\* reported, and the method goes on to return a tuple.
\* The tuple is built from the values the method holds at its end: user_ip
\* is "" and default_router None unless check_ip_format accepted the
\* address; ip and mask are the file's own unless the address also has a
\* first host.
DhcpData(y, user_ip, default_router, mask, ip) ==
    IF y.creation_type # "new" /\ mask = None
    THEN Raised("KeyError")
    ELSE [ok |-> TRUE,
          interface_data |-> [name |-> y.name, ip |-> ip,
                              mask |-> IF y.creation_type # "new"
                                       THEN mask \o " secondary" ELSE mask,
                              default_router |-> default_router,
                              type |-> "DHCP"],
          user_ip |-> user_ip]

DhcpHosted(y, user_ip, default_router, hosted) ==
    DhcpData(y, user_ip, default_router,
             IF hosted THEN calculate_subnet_mask(y.ip) ELSE y.mask,
             IF hosted THEN SliceTo(y.ip, Find(y.ip, "/")) ELSE y.ip)

DhcpRouted(y, checked, default_router) ==
    DhcpHosted(y, IF checked THEN y.ip ELSE "", default_router,
               checked /\ default_router # None)

DhcpChecked(y, checked) ==
    DhcpRouted(y, checked, IF checked THEN get_next_ip_address(y.ip) ELSE None)

dhcp_yaml_creation(y, db, dev) ==
    IF y.creation_type = "new" /\ ~check_pool_number(y.name, dev)
    THEN Raised("TypeError")
    ELSE DhcpChecked(y, check_ip_format(y.ip, db))

\* The prefix lengths whose dotted mask is the mask of the command data,
\* with or without the word secondary after it.
\* The prefix lengths whose dotted mask is m.
PrefixesOf(m) == {p \in 0..32 : MaskStr(p) = m}

MaskPrefixes(mask) ==
    PrefixesOf(IF Find(mask, " ") = -1 THEN mask ELSE SliceTo(mask, Find(mask, " ")))

\* Session.send_config_commands, the device's side, for the command data of
\* a pool: the pool exists afterwards, and it holds the network's range when
\* the data names a network by its address and mask.
\* The network the device reads from an address and the prefix lengths of
\* a mask: ValueError when the mask is none or the address no address.
NetworkOfData(ip, ps) ==
    IF ps = {} \/ ~IPv4Address(ip).ok THEN ValueError
    ELSE IPv4Network(ip \o "/" \o IntStr(CHOOSE p \in ps : TRUE))

\* The device with the pool name, created empty when it has none.
WithPool(dev, name) ==
    IF \A k \in 1..Len(dev.pools) : dev.pools[k].name # name
    THEN [dev EXCEPT !.pools = Append(@, [name |-> name, subnets |-> <<>>])]
    ELSE dev

\* The pool holds the range sub.
Holds(pool, sub) == \E j \in 1..Len(pool.subnets) : pool.subnets[j] = sub

\* The device with the range sub in the pool name, once.
WithSubnet(dev, name, sub) ==
    [dev EXCEPT !.pools =
        [k \in 1..Len(@) |->
            IF @[k].name = name /\ ~Holds(@[k], sub)
            THEN [name |-> name, subnets |-> Append(@[k].subnets, sub)]
            ELSE @[k]]]

\* The device with the host range of net in the pool name; unchanged when
\* the data names no network.
WithRange(dev, name, net) ==
    IF ~net.ok THEN dev
    ELSE WithSubnet(dev, name, [first |-> AddrStr(FirstHost(net)),
                                last  |-> AddrStr(LastHost(net))])

ApplyDHCP(dev, d) ==
    WithRange(WithPool(dev, d.name), d.name,
              NetworkOfData(d.ip, IF d.mask = None THEN {} ELSE MaskPrefixes(d.mask)))

\* The pool numbers and the records the operator types or the input file
\* holds for a pool.
PoolNumbers == {"1", "12"}
CreationTypes == {"new", "add"}
FileMasks == {None, "255.255.255.0"}

\* DHCP.create_dhcp.  Any choice but 1 takes the input-file branch; whatever
\* tuple comes back is rendered, sent and its text reserved.
CreateDhcp ==
    /\ pc = "menu"
    /\ calls < MaxCalls
    /\ \E list_of_pools \in {FindPools(ShowIpDhcpPool(device))} :
           \/ /\ \E console_or_file \in Choices : console_or_file = 1
              /\ \E user_choice \in Choices :
                   \/ /\ user_choice = 1
                      /\ \E pool_number \in PoolNumbers, ip_subnet \in IpTexts :
                           /\ check_pool_number(pool_number, device)
                           /\ AcceptedAgainst(ip_subnet, DB_FILE)
                           /\ \E t \in {create_dhcp_using_console(1, pool_number, ip_subnet)},
                                 call \in {[Chose(1, "create_dhcp", "console", ip_subnet)
                                              EXCEPT !.name = pool_number]} :
                                  SendAndReserve(call, generate_commands(t.interface_data),
                                                 TRUE, t.user_ip,
                                                 ApplyDHCP(device, t.interface_data))
                   \/ /\ user_choice = 2
                      /\ \E pool_index \in Selections(Len(list_of_pools)) :
                           \E chosen \in {PyIndex(list_of_pools, pool_index - 1)} :
                               IF ~chosen.ok
                               THEN Nothing(Chose(1, "create_dhcp", "console", ""), "raised")
                               ELSE \E ip_subnet \in IpTexts :
                                      /\ AcceptedAgainst(ip_subnet, DB_FILE)
                                      /\ \E pool_number \in {SliceFrom(chosen.item, 5)} :
                                         \E t \in {create_dhcp_using_console(2, pool_number,
                                                                             ip_subnet)},
                                            call \in {[Chose(1, "create_dhcp", "console", ip_subnet)
                                                         EXCEPT !.name = pool_number,
                                                                !.adding = TRUE]} :
                                             SendAndReserve(call,
                                                            generate_commands(t.interface_data),
                                                            TRUE, t.user_ip,
                                                            ApplyDHCP(device, t.interface_data))
                   \/ /\ user_choice = -1
                      /\ \E ip_subnet \in IpTexts :
                           /\ AcceptedAgainst(ip_subnet, DB_FILE)
                           /\ Nothing(Chose(1, "create_dhcp", "console", ip_subnet), "raised")
           \/ \E console_or_file \in Choices \ {1} :
                 \E name \in PoolNumbers, ip \in IpTexts, creation_type \in CreationTypes,
                    mask \in FileMasks :
                   \E t \in {dhcp_yaml_creation([name |-> name, ip |-> ip,
                                                  creation_type |-> creation_type,
                                                  mask |-> mask], DB_FILE, device)},
                      call \in {[Chose(console_or_file, "create_dhcp", "file", ip)
                                   EXCEPT !.name = name, !.adding = (creation_type # "new")]} :
                       IF ~t.ok
                       THEN Nothing([call EXCEPT !.error = t.error], "raised")
                       ELSE SendAndReserve(call, generate_commands(t.interface_data),
                                           TRUE, t.user_ip,
                                           ApplyDHCP(device, t.interface_data))

\* Interface.get_user_interface with the operator at the console: the name
\* of the interface chosen, "" when the family has none or the choice is no
\* number.
get_user_interface(list_of_interfaces, interface_index) ==
    IF Len(list_of_interfaces) = 0 \/ interface_index = -1 THEN ""
    ELSE list_of_interfaces[interface_index].interface

\* Session.send_config_commands, the device's side, for 'no interface <name>':
\* the device no longer has the interface.
ApplyNoInterface(dev, command) ==
    LET name == SliceFrom(command, Len("no interface "))
    IN  [dev EXCEPT !.interfaces = SelectSeq(@, LAMBDA f : f.interface # name)]

\* A test that takes every text to hold "dhcp".
HoldsDhcpAlways(interface_details) == TRUE

\* The test of Interface.delete that skips the release: "dhcp" is in the text.
HoldsDhcp(interface_details) == Contains(interface_details, "dhcp")

\* Interface.delete for the configuration text shown: the first address
\* literal is released unless the text holds "dhcp", then the first line is
\* negated on the device.
DeleteDetails(call, interface_details) ==
    \E list_of_ip_addresses \in {get_all_ip_addresses(interface_details)},
       static \in {~HoldsDhcp(interface_details)} :
      IF static /\ Len(list_of_ip_addresses) = 0
      THEN Nothing([call EXCEPT !.error = "IndexError"], "raised")
      ELSE
        \E r \in {IF static THEN edit_db(list_of_ip_addresses[1], FALSE, DB_FILE)
                  ELSE [db |-> DB_FILE, raised |-> FALSE]},
           command \in {"no " \o SliceTo(interface_details, Find(interface_details, "\n"))},
           call2 \in {[call EXCEPT !.released = IF static THEN <<list_of_ip_addresses[1]>>
                                                ELSE <<>>,
                                    !.log = IF static THEN <<"release">> ELSE <<>>]} :
        IF r.raised
        THEN Nothing(call, "raised")
        ELSE \E send_ok \in BOOLEAN :
               /\ DB_FILE' = r.db
               /\ calls' = calls + 1
               /\ UNCHANGED cvars
               /\ IF send_ok
                  THEN /\ device' = ApplyNoInterface(device, command)
                       /\ last' = [call2 EXCEPT !.sent = <<Literal(<<command>>)>>,
                                                !.log = Append(@, "send")]
                  ELSE /\ device' = device
                       /\ last' = [call2 EXCEPT !.outcome = "raised"]

\* The families Session.send_delete_interface_commands hands to
\* Interface.show.
ShownFamilies == {"Loopback", "Vlan"}

\* Interface.show(is_user_interactable = True, is_for_delete = True) for the
\* Loopback and the Vlan family, as Session.send_delete_interface_commands
\* calls it.  The device drops a sub-interface it is told to negate.
Delete ==
    /\ pc = "menu"
    /\ calls < MaxCalls
    /\ \E interface_type \in ShownFamilies :
       \E list_of_interfaces \in
              {get_all_interfaces_of_type(interface_type, ShowInterfaces(device))} :
         \E interface_index \in Selections(Len(list_of_interfaces)) :
           \E interface_to_view \in
                 {get_user_interface(list_of_interfaces, interface_index)} :
             \E shown \in {ShowRunInterface(device, interface_to_view)} :
               \E interface_details \in {SliceFrom(shown, FindSub(shown, "interface"))},
                  call \in {[Call("delete", "console", "")
                               EXCEPT !.name = interface_to_view]} :
                 DeleteDetails(call, interface_details)

\* The command list Physical.delete_physical sends for a Serial interface.
SerialCommands(interface_to_delete) ==
    <<"interface " \o interface_to_delete, "no desc", "no ip address", "shutdown">>

\* Session.send_config_commands, the device's side, for that list: the
\* interface stays, without description and address.
ApplySerialReset(dev, name) ==
    [dev EXCEPT !.interfaces =
        [k \in 1..Len(@) |->
            IF @[k].interface = name
            THEN [@[k] EXCEPT !.ip = "", !.mask = "", !.desc = ""]
            ELSE @[k]]]

\* The Serial branch of Physical.delete_physical: the first address literal
\* after "ip address" is looked up, the command list is sent, and then the
\* address is released.
DeleteSerial(call, interface_to_delete, interface_details) ==
    \E list_of_ip_addresses \in
          {get_all_ip_addresses(SliceFrom(interface_details,
                                          FindSub(interface_details, "ip address")))} :
      IF Len(list_of_ip_addresses) = 0
      THEN Nothing([call EXCEPT !.error = "IndexError"], "raised")
      ELSE \E send_ok \in BOOLEAN :
             IF ~send_ok
             THEN Nothing(call, "raised")
             ELSE \E r \in {edit_db(list_of_ip_addresses[1], FALSE, DB_FILE)} :
                    /\ DB_FILE' = r.db
                    /\ device' = ApplySerialReset(device, interface_to_delete)
                    /\ calls' = calls + 1
                    /\ UNCHANGED cvars
                    /\ last' = [call EXCEPT
                                  !.sent = <<Literal(SerialCommands(interface_to_delete))>>,
                                  !.released = IF r.raised THEN <<>>
                                               ELSE <<list_of_ip_addresses[1]>>,
                                  !.log = IF r.raised THEN <<"send">>
                                          ELSE <<"send", "release">>,
                                  !.outcome = IF r.raised THEN "raised" ELSE "returned"]

\* Physical.delete_physical.  For an interface that is not Serial,
\* Interface.delete is given the interface's name where it expects the
\* configuration text.
DeletePhysical ==
    /\ pc = "menu"
    /\ calls < MaxCalls
    /\ \E list_of_interfaces \in
              {get_all_interfaces_of_type("Physical", ShowInterfaces(device))} :
         \E interface_index \in Selections(Len(list_of_interfaces)) :
           \E interface_to_delete \in
                 {get_user_interface(list_of_interfaces, interface_index)} :
             \E shown \in {ShowRunInterface(device, interface_to_delete)} :
               \E interface_details \in {SliceFrom(shown, FindSub(shown, "interface"))},
                  call \in {[Call("delete_physical", "console", "")
                               EXCEPT !.name = interface_to_delete]} :
                 IF Contains(interface_to_delete, "Serial")
                 THEN DeleteSerial(call, interface_to_delete, interface_details)
                 ELSE DeleteDetails(call, interface_to_delete)

\* Output of 'show ip dhcp <pool_to_remove>', where pool_to_remove is a
\* heading "Pool <number>" of the pool list: the text of that pool.
ShowIpDhcp(dev, pool_to_remove) ==
    PoolTexts(SelectSeq(dev.pools, LAMBDA p : p.name = SliceFrom(pool_to_remove, 5)), 1)

\* Session.send_config_commands, the device's side, for
\* 'no ip dhcp Pool <number>': the device no longer has the pool.
ApplyNoPool(dev, command) ==
    [dev EXCEPT !.pools =
        SelectSeq(@, LAMBDA p : p.name # SliceFrom(command, Len("no ip dhcp Pool ")))]

\* One round of the releasing loop of delete_dhcp: r is what edit_db gave
\* for the address ip.
ReleaseStep(r, ip, acc) ==
    IF r.raised
    THEN [db |-> acc.db, raised |-> TRUE, released |-> acc.released]
    ELSE [db |-> r.db, raised |-> FALSE, released |-> Append(acc.released, ip)]

\* The releasing loop that runs once whatever the number of ranges.
ReleaseSubPoolsOnce(pool_ip_addresses, number_of_sub_pools, acc) ==
    IF number_of_sub_pools = 0 \/ acc.raised THEN acc
    ELSE ReleaseStep(edit_db(pool_ip_addresses[1], FALSE, acc.db),
                     pool_ip_addresses[1], acc)

\* The releasing loop of delete_dhcp: number_of_sub_pools times the first
\* literal is released and the first three literals are dropped.  An
\* exception of edit_db ends the loop and the method.
RECURSIVE ReleaseSubPools(_, _, _)
ReleaseSubPools(pool_ip_addresses, number_of_sub_pools, acc) ==
    IF number_of_sub_pools = 0 \/ acc.raised THEN acc
    ELSE ReleaseSubPools(SubSeq(pool_ip_addresses, 4, Len(pool_ip_addresses)),
                         number_of_sub_pools - 1,
                         ReleaseStep(edit_db(pool_ip_addresses[1], FALSE, acc.db),
                                     pool_ip_addresses[1], acc))

\* DHCP.delete_dhcp from the point where the pool's addresses are known.
DeletePool(call, pool_to_remove, r) ==
    \E send_ok \in (IF r.raised THEN {FALSE} ELSE BOOLEAN),
       call2 \in {[call EXCEPT !.released = r.released,
                               !.log = [k \in 1..Len(r.released) |-> "release"]]} :
      /\ DB_FILE' = r.db
      /\ calls' = calls + 1
      /\ UNCHANGED cvars
      /\ IF send_ok
         THEN /\ device' = ApplyNoPool(device, "no ip dhcp " \o pool_to_remove)
              /\ last' = [call2 EXCEPT
                            !.sent = <<Literal(<<"no ip dhcp " \o pool_to_remove>>)>>,
                            !.log = Append(@, "send")]
         ELSE /\ device' = device
              /\ last' = [call2 EXCEPT !.outcome = "raised"]

\* DHCP.delete_dhcp.  The pool is the one at the position the operator's
\* number less one gives in the list of pool headings; the closing view()
\* only reads the device.
DeleteDhcp ==
    /\ pc = "menu"
    /\ calls < MaxCalls
    /\ \E list_of_pools \in {FindPools(ShowIpDhcpPool(device))} :
         \E pool_index \in Selections(Len(list_of_pools)) :
           \E chosen \in {PyIndex(list_of_pools, pool_index - 1)} :
             IF ~chosen.ok
             THEN Nothing([Call("delete_dhcp", "console", "")
                             EXCEPT !.choice = pool_index, !.error = "IndexError"],
                          "raised")
             ELSE \E pool_ip_addresses \in
                        {get_all_ip_addresses(ShowIpDhcp(device, chosen.item))},
                     call \in {[Call("delete_dhcp", "console", "")
                                  EXCEPT !.name = chosen.item,
                                         !.choice = pool_index]} :
                    DeletePool(call, chosen.item,
                               ReleaseSubPools(pool_ip_addresses,
                                               Len(pool_ip_addresses) \div 3,
                                               [db |-> DB_FILE, raised |-> FALSE,
                                                released |-> <<>>]))

(***************************************************************************)
(* Session.make_connection inside the connection loop of Main.run.         *)
(***************************************************************************)

\* Largest number of sessions Main.run builds in a run.
MaxRounds == 3

\* How a ConnectHandler call ends: it returns, or raises
\* NetmikoTimeoutException, NetmikoAuthenticationException or something else.
Outcomes == {"ok", "timeout", "auth", "other"}

\* What 'show ver' answers, and how send_command ends when it raises.
ShowVerOutputs == {"Cisco IOS Software", "Cisco Nexus Operating System (NX-OS) Software"}
SendOutcomes == {"ok", "timeout", "other"}

\* The except clauses as they would be if an authentication failure were
\* handled like a timeout: the variant C8_AuthTerminal has to tell apart.
ExceptAuthFallsBack(exception) ==
    IF exception \in {"timeout", "auth"} THEN "fallback" ELSE "propagate"

\* The inner except clause as it would be if it tried the legacy dialect
\* again: the variant C9_OneFallback has to tell apart.
ExceptInnerRetries(exception) ==
    IF exception = "auth" THEN "fallback" ELSE "propagate"

\* The test of the output as it would be if every device were reconnected:
\* the variant C7_NexusReconnect has to tell apart.
AfterShowVerAlways(text) == "reconnect"

\* The except clauses of the outer try of make_connection: where an
\* exception raised inside it leads.
Except(exception) ==
    IF exception = "timeout" THEN "fallback"
    ELSE IF exception = "auth" THEN "login_incorrect"
    ELSE "propagate"

\* The except clause of the try inside the timeout handler.
ExceptInner(exception) ==
    IF exception = "auth" THEN "not_established" ELSE "propagate"

\* What follows 'show ver': the reconnect when the output holds "Nexus",
\* else return True.
AfterShowVer(text) == IF Contains(text, "Nexus") THEN "reconnect" ELSE "return_true"

\* Leaving the try by one of its exits: return True breaks the loop of
\* Main.run, return False (after the report) repeats it, an exception nobody
\* catches ends the program.
Leave(exit) ==
    /\ pc' = CASE exit = "fallback" -> "fallback"
               [] exit = "reconnect" -> "reconnect"
               [] exit = "return_true" -> "menu"
               [] exit = "propagate" -> "raised"
               [] OTHER -> "scan"
    /\ returned' = CASE exit \in {"fallback", "reconnect"} -> returned
                     [] exit = "return_true" -> "True"
                     [] exit = "propagate" -> "raised"
                     [] OTHER -> "False"
    /\ printed' = CASE exit = "login_incorrect" ->
                         "Connection could not be established to "
                         \o session_details.host \o ". Login incorrect"
                    [] exit = "not_established" ->
                         "Connection could not be established to " \o session_details.host
                    [] OTHER -> printed

\* netmiko.ConnectHandler(**self.session_details) with the given details: the
\* attempt is recorded, and the handle is the new connection when it returns.
ConnectHandler(details, outcome) ==
    /\ attempts' = Append(attempts, [device_type |-> details.device_type,
                                     outcome |-> outcome])
    /\ net_connect' = IF outcome = "ok" THEN "connected" ELSE net_connect

InitConn ==
    /\ InitHandlers
    /\ pc = "scan"
    /\ session_details = get_device_details("")
    /\ net_connect = "BaseConnection"
    /\ attempts = <<>>
    /\ output = ""
    /\ returned = "none"
    /\ printed = ""
    /\ rounds = 0
    /\ workflow = <<>>
    /\ template_env = <<>>

\* Main.run: device_scan and a new Session.
DeviceScan ==
    /\ pc = "scan"
    /\ rounds < MaxRounds
    /\ \E k \in 1..Len(get_devices_in_network) :
         session_details' = get_device_details(get_devices_in_network[k])
    /\ net_connect' = "BaseConnection"
    /\ attempts' = <<>>
    /\ output' = ""
    /\ returned' = "none"
    /\ printed' = ""
    /\ rounds' = rounds + 1
    /\ pc' = "connect"
    /\ UNCHANGED <<hvars, workflow, template_env>>

\* make_connection: the first ConnectHandler call.
Connect ==
    /\ pc = "connect"
    /\ \E outcome \in Outcomes :
         /\ ConnectHandler(session_details, outcome)
         /\ IF outcome = "ok"
            THEN pc' = "show_ver" /\ UNCHANGED <<returned, printed>>
            ELSE Leave(Except(outcome))
    /\ UNCHANGED <<session_details, output, rounds>>
    /\ UNCHANGED <<hvars, workflow, template_env>>

\* make_connection: send_command('show ver') and the test of its output; on
\* the Nexus signature the connection is closed and the dialect set.
ShowVer ==
    /\ pc = "show_ver"
    /\ \E outcome \in SendOutcomes, text \in ShowVerOutputs :
         IF outcome # "ok"
         THEN /\ Leave(Except(outcome))
              /\ UNCHANGED <<session_details, net_connect, output>>
         ELSE /\ output' = text
              /\ Leave(AfterShowVer(text))
              /\ IF AfterShowVer(text) = "reconnect"
                 THEN /\ net_connect' = "disconnected"
                      /\ session_details' = [session_details EXCEPT !.device_type = "cisco_nxos"]
                 ELSE UNCHANGED <<session_details, net_connect>>
    /\ UNCHANGED <<attempts, rounds>>
    /\ UNCHANGED <<hvars, workflow, template_env>>

\* make_connection: the ConnectHandler call after the Nexus signature.
Reconnect ==
    /\ pc = "reconnect"
    /\ \E outcome \in Outcomes :
         /\ ConnectHandler(session_details, outcome)
         /\ Leave(IF outcome = "ok" THEN "return_true" ELSE Except(outcome))
    /\ UNCHANGED <<session_details, output, rounds>>
    /\ UNCHANGED <<hvars, workflow, template_env>>

\* make_connection: the timeout handler sets the dialect and calls
\* ConnectHandler once more.
Fallback ==
    /\ pc = "fallback"
    /\ session_details' = [session_details EXCEPT !.device_type = "cisco_iso_telnet"]
    /\ \E outcome \in Outcomes :
         /\ ConnectHandler(session_details', outcome)
         /\ Leave(IF outcome = "ok" THEN "return_true" ELSE ExceptInner(outcome))
    /\ UNCHANGED <<output, rounds>>
    /\ UNCHANGED <<hvars, workflow, template_env>>

Next ==
    \/ Create
    \/ Assign
    \/ CreateVlan
    \/ CreateDhcp
    \/ Delete
    \/ DeletePhysical
    \/ DeleteDhcp

Spec == Init /\ [][Next]_vars

NextConn ==
    \/ DeviceScan
    \/ Connect
    \/ ShowVer
    \/ Reconnect
    \/ Fallback

SpecConn == InitConn /\ [][NextConn]_vars

(***************************************************************************)
(* Interface.get_all_interfaces_of_type on the lists a device can answer   *)
(* 'show interfaces' with: the view of a family lists its interfaces.      *)
(***************************************************************************)

\* The families Session.send_show_interface_commands hands to
\* Interface.show.
ViewFamilies == {"Physical", "Vlan", "Loopback"}

\* Interface.show(is_user_interactable = True, is_for_delete = False) as far
\* as get_user_interface: the interfaces of the family are printed with
\* their numbers.
Show ==
    /\ pc = "menu"
    /\ calls < MaxCalls
    /\ \E interface_type \in ViewFamilies :
         last' = [Call("show", "console", "")
                    EXCEPT !.family = interface_type,
                           !.listed = Names(get_all_interfaces_of_type(
                                                interface_type, ShowInterfaces(device)))]
    /\ calls' = calls + 1
    /\ UNCHANGED <<DB_FILE, device>>
    /\ UNCHANGED cvars

\* The interface names of the devices looked at, and the longest list.
RowNames == {"Ethernet0/0", "Ethernet0/0.10", "Loopback0", "Serial1/0",
             "Ethernet2/0", "GigabitEthernet0/1"}
MaxRows == 4

\* The lists of at most MaxRows of these names, none twice.
RowLists ==
    {names \in UNION {[1..n -> RowNames] : n \in 0..MaxRows} :
        \A i, j \in 1..Len(names) : i # j => names[i] # names[j]}

\* A device whose interfaces have these names and no address; a
\* sub-interface has the number after its dot as its vlan.
DeviceWith(names) ==
    [interfaces |->
        [k \in 1..Len(names) |->
            [interface |-> names[k], ip |-> "", mask |-> "", desc |-> "",
             vlan_id |-> IF Find(names[k], ".") = -1 THEN ""
                         ELSE SliceFrom(names[k], Find(names[k], ".") + 1)]],
     pools |-> <<>>]

\* The device menu on any of these devices.
InitRows ==
    /\ DB_FILE = <<>>
    /\ device \in {DeviceWith(names) : names \in RowLists}
    /\ last = NoOp
    /\ calls = 0
    /\ pc = "menu"
    /\ session_details = get_device_details(get_devices_in_network[1])
    /\ net_connect = "connected"
    /\ attempts = <<[device_type |-> "cisco_ios", outcome |-> "ok"]>>
    /\ output = "Cisco IOS Software"
    /\ returned = "True"
    /\ printed = ""
    /\ rounds = 1
    /\ workflow = <<>>
    /\ template_env = <<>>

NextRows == Show

SpecRows == InitRows /\ [][NextRows]_vars

(***************************************************************************)
(* Vlan.create_vlan on a device whose port names begin alike.              *)
(***************************************************************************)

\* Two Ethernet ports, the name of the first the beginning of the name of
\* the second.
PortNames == <<"Ethernet0/1", "Ethernet0/10">>

\* The device menu on a device with these ports.
InitPorts ==
    /\ DB_FILE = <<>>
    /\ device = DeviceWith(PortNames)
    /\ last = NoOp
    /\ calls = 0
    /\ pc = "menu"
    /\ session_details = get_device_details(get_devices_in_network[1])
    /\ net_connect = "connected"
    /\ attempts = <<[device_type |-> "cisco_ios", outcome |-> "ok"]>>
    /\ output = "Cisco IOS Software"
    /\ returned = "True"
    /\ printed = ""
    /\ rounds = 1
    /\ workflow = <<>>
    /\ template_env = <<>>

NextPorts == CreateVlan

SpecPorts == InitPorts /\ [][NextPorts]_vars

(***************************************************************************)
(* Two runs of the program on one ledger file and one device, each in      *)
(* Interface.create on the console path.  A run's steps are the reads and  *)
(* writes the handler makes one after the other: the address prompt with   *)
(* check_ip_format (a read of the ledger), the name prompt with check_name *)
(* (a read of the device), send_config_commands, and edit_db (a write of   *)
(* the ledger).  Nothing in the program holds the ledger between them.     *)
(***************************************************************************)
Runs == {1, 2}
RaceNames == {"Loopback1", "Loopback2"}

svars == <<pc, session_details, net_connect, attempts, output, returned, printed, rounds>>
svars_but_pc == <<session_details, net_connect, attempts, output, returned, printed, rounds>>

InitRace ==
    /\ InitHandlers
    /\ pc = "menu"
    /\ session_details = get_device_details(get_devices_in_network[1])
    /\ net_connect = "connected"
    /\ attempts = <<[device_type |-> "cisco_ios", outcome |-> "ok"]>>
    /\ output = "Cisco IOS Software"
    /\ returned = "True"
    /\ printed = ""
    /\ rounds = 1
    /\ workflow = [w \in Runs |-> [at |-> "ip", user_ip |-> "", name |-> ""]]
    /\ template_env = <<>>

\* create_using_console, the first loop: it ends on a text check_ip_format
\* accepts against the ledger as it is now and that has a first host.
AskAddress ==
    \E w \in Runs, user_ip \in IpTexts :
        /\ workflow[w].at = "ip"
        /\ AcceptedAgainst(user_ip, DB_FILE)
        /\ workflow' = [workflow EXCEPT ![w].at = "name", ![w].user_ip = user_ip]
        /\ UNCHANGED <<hvars, svars, template_env>>

\* create_using_console, the second loop: it ends on a name check_name
\* finds free on the device as it is now.
AskName ==
    \E w \in Runs, name \in RaceNames :
        /\ workflow[w].at = "name"
        /\ check_name(name, "Loopback", device)
        /\ workflow' = [workflow EXCEPT ![w].at = "send", ![w].name = name]
        /\ UNCHANGED <<hvars, svars, template_env>>

\* Interface.create: the commands are sent; send_config_commands returns or
\* raises.
SendCommands ==
    \E w \in Runs, d \in Descriptions, send_ok \in BOOLEAN :
        /\ workflow[w].at = "send"
        /\ IF send_ok
           THEN /\ device' = ApplyBasic(device,
                                 create_using_console(workflow[w].user_ip,
                                                      workflow[w].name, d).interface_data)
                /\ workflow' = [workflow EXCEPT ![w].at = "reserve"]
           ELSE /\ device' = device
                /\ workflow' = [workflow EXCEPT ![w].at = "raised"]
        /\ UNCHANGED <<DB_FILE, last, calls, svars, template_env>>

\* Interface.create: edit_db adds the text the run was given.
Reserve ==
    \E w \in Runs :
        /\ workflow[w].at = "reserve"
        /\ DB_FILE' = edit_db(workflow[w].user_ip, TRUE, DB_FILE).db
        /\ workflow' = [workflow EXCEPT ![w].at = "done"]
        /\ UNCHANGED <<device, last, calls, svars, template_env>>

NextRace ==
    \/ AskAddress
    \/ AskName
    \/ SendCommands
    \/ Reserve

SpecRace == InitRace /\ [][NextRace]_vars

(***************************************************************************)
(* Command generation (CommandGenerator in RouterNetmiko.py, and           *)
(* Interface.generate_commands, which is the same three lines).  The       *)
(* template is a file outside the program; it is taken as loaded: a        *)
(* sequence of literal texts and of fields {{ config.x }}.                 *)
(***************************************************************************)
Lit(text) == [lit |-> TRUE, text |-> text]
Field(x) == [lit |-> FALSE, text |-> x]

\* Templates: one line per command; a blank line and a last line ended by a
\* newline; lines ended by carriage return and newline; one line only.
Templates ==
    { <<Lit("interface "), Field("name"), Lit("\n ip address "), Field("ip"), Lit(" "),
        Field("mask"), Lit("\n description "), Field("desc")>>,
      <<Lit("interface "), Field("name"), Lit("\n\n ip address "), Field("ip"), Lit(" "),
        Field("mask"), Lit("\n")>>,
      <<Lit("interface "), Field("name"), Lit("\r\n description "), Field("desc"),
        Lit("\r\n")>>,
      <<Lit("interface "), Field("name")>> }

\* The command data of a loopback (YamlReader.read_loopback).
CommandData ==
    [name : {"Loopback5", "Loopback6", "Loopback7"}, ip : {"10.1.1.1", "10.1.1.2"},
     mask : {"255.255.255.255"}, desc : {"test", ""}]

\* template.render(config = command_data): the literals and the values of
\* the fields, one after the other.
RECURSIVE render(_, _)
render(template, config) ==
    IF template = <<>> THEN ""
    ELSE (IF Head(template).lit THEN Head(template).text ELSE config[Head(template).text])
         \o render(Tail(template), config)

\* A split that leaves the empty lines out.
convert_to_list_without_blanks(to_convert) ==
    SelectSeq(Split(to_convert, "\n"), LAMBDA line : line # "")

\* CommandGenerator.convert_to_list
convert_to_list(to_convert) == Split(to_convert, "\n")

InitLines ==
    /\ InitHandlers
    /\ pc = "menu"
    /\ session_details = get_device_details(get_devices_in_network[1])
    /\ net_connect = "connected"
    /\ attempts = <<[device_type |-> "cisco_ios", outcome |-> "ok"]>>
    /\ output = "Cisco IOS Software"
    /\ returned = "True"
    /\ printed = ""
    /\ rounds = 1
    /\ workflow = <<>>
    /\ template_env \in Templates

\* CommandGenerator.generate_commands: render, then convert_to_list.
GenerateCommands ==
    /\ calls < MaxCalls
    /\ \E command_data \in CommandData :
         \E commands \in {render(template_env, command_data)} :
             last' = [NoOp EXCEPT !.op = "generate_commands",
                                  !.sent = <<command_data>>,
                                  !.rendered = commands,
                                  !.commands = convert_to_list(commands)]
    /\ calls' = calls + 1
    /\ UNCHANGED <<DB_FILE, device, cvars>>

NextLines == GenerateCommands

SpecLines == InitLines /\ [][NextLines]_vars

(***************************************************************************)
(* Main.run from the main menu on: the main menu, the connection loop, and *)
(* the loop of the device menu with the view and the basic create as its   *)
(* handlers.  pc is "main_menu" at the first prompt and "ended" when run    *)
(* has returned, which ends the program.                                   *)
(***************************************************************************)
InitMain ==
    /\ InitHandlers
    /\ pc = "main_menu"
    /\ session_details = get_device_details("")
    /\ net_connect = "BaseConnection"
    /\ attempts = <<>>
    /\ output = ""
    /\ returned = "none"
    /\ printed = ""
    /\ rounds = 0
    /\ workflow = <<>>
    /\ template_env = <<>>

\* Main.run: display_main_menu and validate_input_int(1, 2).  1 starts the
\* connection loop; after 2, or an input that is no number, run returns.
MainMenu ==
    /\ pc = "main_menu"
    /\ \E main_menu_choice \in Choices :
         /\ pc' = IF main_menu_choice = 1 THEN "scan" ELSE "ended"
         /\ last' = [NoOp EXCEPT !.op = "main_menu", !.choice = main_menu_choice]
    /\ UNCHANGED <<DB_FILE, device, calls, svars_but_pc, workflow, template_env>>

\* Main.run: display_device_menu answered with something that is no number
\* (device_choice = -1): the else branch breaks the loop and run returns.
DeviceMenuQuit ==
    /\ pc = "menu"
    /\ \E device_choice \in {-1} :
         last' = [NoOp EXCEPT !.op = "device_menu", !.choice = device_choice]
    /\ pc' = "ended"
    /\ UNCHANGED <<DB_FILE, device, calls, svars_but_pc, workflow, template_env>>

NextMain ==
    \/ MainMenu
    \/ DeviceScan
    \/ Connect
    \/ ShowVer
    \/ Reconnect
    \/ Fallback
    \/ DeviceMenuQuit
    \/ Show
    \/ Create

SpecMain == InitMain /\ [][NextMain]_vars

(***************************************************************************)
(* Interface.show(is_user_interactable = True, is_for_delete = False), the *)
(* view of a family, step by step.  pc is "menu" at the device menu, which *)
(* is where the view's caller stands, "select" at get_user_interface,      *)
(* "details" at the 'show run interface' of the name it returned, and      *)
(* "write_output" at the question that follows.  The operator answers      *)
(* every prompt and the device every show command.                         *)
(***************************************************************************)

\* The devices viewed: at most two interfaces.
ViewLists == {names \in RowLists : Len(names) <= 2}

InitView ==
    /\ DB_FILE = <<>>
    /\ device \in {DeviceWith(names) : names \in ViewLists}
    /\ last = NoOp
    /\ calls = 0
    /\ pc = "menu"
    /\ session_details = get_device_details(get_devices_in_network[1])
    /\ net_connect = "connected"
    /\ attempts = <<[device_type |-> "cisco_ios", outcome |-> "ok"]>>
    /\ output = "Cisco IOS Software"
    /\ returned = "True"
    /\ printed = ""
    /\ rounds = 1
    /\ workflow = <<>>
    /\ template_env = <<>>

\* Session.send_show_interface_commands for a family: Interface.show starts
\* with interface_to_view = "".
StartView ==
    /\ pc = "menu"
    /\ \E interface_type \in ViewFamilies :
         last' = [Call("show", "console", "") EXCEPT !.family = interface_type]
    /\ pc' = "select"
    /\ UNCHANGED <<DB_FILE, device, calls, svars_but_pc, workflow, template_env>>

\* The loop of Interface.show calls get_user_interface: the family is
\* listed and, when it has interfaces, the operator selects one or types
\* something that is no number.  Whatever it returns is not None, so the
\* interactive view goes on to the details.
SelectInterface ==
    /\ pc = "select"
    /\ \E list_of_interfaces \in
             {get_all_interfaces_of_type(last.family, ShowInterfaces(device))} :
         \E interface_index \in
                IF Len(list_of_interfaces) = 0 THEN {0}
                ELSE Selections(Len(list_of_interfaces)) :
             last' = [last EXCEPT
                         !.listed = Names(list_of_interfaces),
                         !.choice = interface_index,
                         !.name = get_user_interface(list_of_interfaces, interface_index)]
    /\ pc' = "details"
    /\ UNCHANGED <<DB_FILE, device, calls, svars_but_pc, workflow, template_env>>

\* send_show_command('show run interface <name>'), cut at "interface" and
\* printed; is_for_delete is False.
ShowDetails ==
    /\ pc = "details"
    /\ \E interface_details \in {ShowRunInterface(device, last.name)} :
         last' = [last EXCEPT !.rendered =
                      SliceFrom(interface_details, FindSub(interface_details, "interface"))]
    /\ pc' = "write_output"
    /\ UNCHANGED <<DB_FILE, device, calls, svars_but_pc, workflow, template_env>>

\* write_output: the operator's answer; then the loop of Interface.show
\* tests interface_to_view, which is a name or "", and goes round again.
WriteOutput ==
    /\ pc = "write_output"
    /\ \E write_to_file \in Choices :
         last' = [last EXCEPT !.console_or_file = write_to_file]
    /\ pc' = IF last.name = None THEN "menu" ELSE "select"
    /\ UNCHANGED <<DB_FILE, device, calls, svars_but_pc, workflow, template_env>>

NextView ==
    \/ StartView
    \/ SelectInterface
    \/ ShowDetails
    \/ WriteOutput

SpecView == InitView /\ [][NextView]_vars /\ WF_vars(NextView)

(***************************************************************************)
(* RouterNetmiko.py: Session.make_connection as the script calls it once,  *)
(* after get_device_details.  Both of its except clauses are bare: they    *)
(* catch whatever the try raises.  pc is "details" before the details are  *)
(* typed and "returned" once make_connection has returned (it returns      *)
(* None on every path).                                                    *)
(***************************************************************************)
RouterHosts == {"192.168.100.1", "10.0.0.1"}
RouterPorts == {22, 23}

\* The bare except of the outer try: every exception leads to the handler.
RouterExcept(exception) == "fallback"

\* The bare except of the try inside the handler: the failure is printed.
RouterExceptInner(exception) == "not_established"

\* Leaving the try of make_connection by one of its exits.
RouterLeave(exit) ==
    /\ pc' = CASE exit = "fallback" -> "fallback"
               [] exit = "reconnect" -> "reconnect"
               [] OTHER -> "returned"
    /\ returned' = IF exit \in {"fallback", "reconnect"} THEN returned ELSE "None"
    /\ printed' = IF exit = "not_established"
                  THEN "Connection could not be establised to " \o session_details.host
                  ELSE printed

InitRouter ==
    /\ InitHandlers
    /\ pc = "details"
    /\ session_details = [device_type |-> "", host |-> "", port |-> 0]
    /\ net_connect = "unset"
    /\ attempts = <<>>
    /\ output = ""
    /\ returned = "none"
    /\ printed = ""
    /\ rounds = 0
    /\ workflow = <<>>
    /\ template_env = <<>>

\* get_device_details and Session(session_details).
RouterDetails ==
    /\ pc = "details"
    /\ \E ip_address \in RouterHosts, port \in RouterPorts :
         session_details' = [device_type |-> "cisco_ios", host |-> ip_address, port |-> port]
    /\ pc' = "connect"
    /\ UNCHANGED <<net_connect, attempts, output, returned, printed, rounds>>
    /\ UNCHANGED <<hvars, workflow, template_env>>

\* make_connection: the first ConnectHandler call.
RouterConnect ==
    /\ pc = "connect"
    /\ \E outcome \in Outcomes :
         /\ ConnectHandler(session_details, outcome)
         /\ IF outcome = "ok"
            THEN pc' = "show_ver" /\ UNCHANGED <<returned, printed>>
            ELSE RouterLeave(RouterExcept(outcome))
    /\ UNCHANGED <<session_details, output, rounds>>
    /\ UNCHANGED <<hvars, workflow, template_env>>

\* make_connection: send_command('show ver') and the test of its output.
RouterShowVer ==
    /\ pc = "show_ver"
    /\ \E outcome \in SendOutcomes, text \in ShowVerOutputs :
         IF outcome # "ok"
         THEN /\ RouterLeave(RouterExcept(outcome))
              /\ UNCHANGED <<session_details, net_connect, output>>
         ELSE /\ output' = text
              /\ RouterLeave(IF Contains(text, "Nexus") THEN "reconnect" ELSE "return")
              /\ IF Contains(text, "Nexus")
                 THEN /\ net_connect' = "disconnected"
                      /\ session_details' = [session_details EXCEPT !.device_type = "cisco_nxos"]
                 ELSE UNCHANGED <<session_details, net_connect>>
    /\ UNCHANGED <<attempts, rounds>>
    /\ UNCHANGED <<hvars, workflow, template_env>>

\* make_connection: the ConnectHandler call after the Nexus signature.
RouterReconnect ==
    /\ pc = "reconnect"
    /\ \E outcome \in Outcomes :
         /\ ConnectHandler(session_details, outcome)
         /\ RouterLeave(IF outcome = "ok" THEN "return" ELSE RouterExcept(outcome))
    /\ UNCHANGED <<session_details, output, rounds>>
    /\ UNCHANGED <<hvars, workflow, template_env>>

\* make_connection: the handler sets the dialect and calls ConnectHandler
\* once more.
RouterFallback ==
    /\ pc = "fallback"
    /\ session_details' = [session_details EXCEPT !.device_type = "cisco_iso_telnet"]
    /\ \E outcome \in Outcomes :
         /\ ConnectHandler(session_details', outcome)
         /\ RouterLeave(IF outcome = "ok" THEN "return" ELSE RouterExceptInner(outcome))
    /\ UNCHANGED <<output, rounds>>
    /\ UNCHANGED <<hvars, workflow, template_env>>

NextRouter ==
    \/ RouterDetails
    \/ RouterConnect
    \/ RouterShowVer
    \/ RouterReconnect
    \/ RouterFallback

SpecRouter == InitRouter /\ [][NextRouter]_vars

(***************************************************************************)
(* Properties of the address ledger.                                       *)
(***************************************************************************)

\* Candidates in the form address/prefix, and addresses, that the
\* properties of check_ip_format and edit_db are asked about.
CandidateTexts == {"10.0.0.0/24", "10.0.0.5/32", "10.0.0.255/32", "10.0.0.128/25",
                   "10.0.1.0/24"}
ProbeAddresses == {"10.0.0.1", "10.0.0.129", "10.0.0.200", "10.0.1.1"}

\* The address lies between the network address and the broadcast address
\* of the record, both included.
Covers(record, a) ==
    LET net == IPv4Network(record) IN net.ok /\ InNet(a, net)

\* Two records are networks that share an address.
Overlap(r1, r2) ==
    LET n1 == IPv4Network(r1)
        n2 == IPv4Network(r2)
    IN  n1.ok /\ n2.ok /\ (InNet(n1.addr, n2) \/ InNet(n2.addr, n1))

\* C1: after any sequence of creates and deletes no two reservations held in
\* the ledger have overlapping address ranges.
C1_NoOverlap ==
    \A i, j \in 1..Len(DB_FILE) : i < j => ~Overlap(DB_FILE[i], DB_FILE[j])

\* C2: whatever the ledger holds, check_ip_format is False for a candidate
\* whose address is the network address or the broadcast address of a
\* reservation or lies in its host range, and True for a candidate whose
\* address lies inside no reservation.
C2_CheckIpFormat ==
    \A c \in CandidateTexts :
        LET a == IPv4Address(SliceTo(c, Find(c, "/")))
        IN  check_ip_format(c, DB_FILE)
              = ~(\E k \in 1..Len(DB_FILE) : Covers(DB_FILE[k], a))

\* C3: from a ledger in which the network N is available, reserving N and
\* then releasing an address inside N leaves N available again and the
\* ledger as it was before the reservation.
C3_RoundTrip ==
    \A N \in CandidateTexts, a \in ProbeAddresses :
        (check_ip_format(N, DB_FILE) /\ Covers(N, IPv4Address(a)))
        => LET reserved == edit_db(N, TRUE, DB_FILE).db
               released == edit_db(a, FALSE, reserved)
           IN  /\ ~released.raised
               /\ released.db = DB_FILE
               /\ check_ip_format(N, released.db)

(***************************************************************************)
(* Properties of the create handlers.  In a step of a handler DB_FILE is   *)
(* the ledger the handler found and last' what the handler did.            *)
(***************************************************************************)

\* C4: the Loopback and the Vlan create send commands and reserve only for a
\* static address that check_ip_format accepted against the ledger and that
\* has a first usable host; the text reserved is the text given; and when
\* the file's address is rejected nothing is sent and the ledger is left as
\* it was.
C4_CheckedBeforeCreate ==
    [][(last'.op \in {"create", "create_vlan"} /\ calls' = calls + 1)
       => LET sentinel == last'.op = "create_vlan" /\ last'.ip = "dhcp"
          IN  /\ (last'.sent # <<>> /\ ~sentinel) => AcceptedAgainst(last'.ip, DB_FILE)
              /\ last'.reserved # <<>>
                   => /\ ~sentinel
                      /\ AcceptedAgainst(last'.ip, DB_FILE)
                      /\ last'.reserved = <<last'.ip>>
                      /\ DB_FILE' = Append(DB_FILE, last'.ip)
              /\ (last'.path = "file" /\ ~sentinel /\ ~check_ip_format(last'.ip, DB_FILE))
                   => (last'.sent = <<>> /\ DB_FILE' = DB_FILE /\ device' = device)
      ]_vars

\* A Vlan create from the input file has sent its commands and reserved a
\* network next to an earlier reservation.
C4_Witness ==
    /\ last.op = "create_vlan"
    /\ last.path = "file"
    /\ last.sent # <<>>
    /\ last.reserved = <<"10.0.0.0/24">>
    /\ Len(DB_FILE) = 2

\* C5: Physical.assign with a static address sends commands and reserves the
\* address only if the address was checked against the ledger and found
\* available.
C5_AssignChecked ==
    [][(last'.op = "assign" /\ calls' = calls + 1 /\ last'.ip # "dhcp"
        /\ (last'.sent # <<>> \/ last'.reserved # <<>>))
       => check_ip_format(last'.ip, DB_FILE)
      ]_vars

\* The device has a pool of the name.
PoolExists(dev, name) == \E k \in 1..Len(dev.pools) : dev.pools[k].name = name

\* C6: the DHCP create sends no command and reserves nothing when the
\* address fails validation or, adding a sub-range, the pool does not exist.
C6_DhcpValidated ==
    [][(last'.op = "create_dhcp" /\ calls' = calls + 1
        /\ (\/ ~check_ip_format(last'.ip, DB_FILE)
            \/ (last'.adding /\ ~PoolExists(device, last'.name))))
       => (last'.sent = <<>> /\ last'.reserved = <<>> /\ DB_FILE' = DB_FILE)
      ]_vars

(***************************************************************************)
(* Properties of make_connection.                                          *)
(***************************************************************************)

Nexus == Contains(output, "Nexus")

LegacyAttempted ==
    \E k \in 1..Len(attempts) : attempts[k].device_type = "cisco_iso_telnet"

C8_AuthTerminal ==
    (Len(attempts) >= 1 /\ attempts[1].outcome = "auth")
        => /\ Len(attempts) = 1
           /\ returned = "False"
           /\ pc = "scan"
           /\ Contains(printed, "Login incorrect")
           /\ session_details.device_type = "cisco_ios"

\* The first attempt of a session failed with an authentication failure.
C8_Witness ==
    /\ attempts = <<[device_type |-> "cisco_ios", outcome |-> "auth"]>>
    /\ returned = "False"

\* C9: after a timeout of the first connection attempt the one fallback
\* attempt in the legacy telnet dialect is the next thing make_connection
\* does, and whatever its outcome make_connection ends with it.
C9_OneFallback ==
    (Len(attempts) >= 1 /\ attempts[1].outcome = "timeout")
        => /\ Len(attempts) <= 2
           /\ Len(attempts) = 1 => (pc = "fallback" /\ ENABLED Fallback)
           /\ Len(attempts) = 2
                => /\ attempts[2].device_type = "cisco_iso_telnet"
                   /\ pc \in {"menu", "scan", "raised"}
                   /\ returned # "none"

\* The first attempt timed out and the fallback attempt failed as well.
C9_Witness ==
    /\ Len(attempts) = 2
    /\ attempts[1].outcome = "timeout"
    /\ attempts[2] = [device_type |-> "cisco_iso_telnet", outcome |-> "auth"]
    /\ returned = "False"

\* C10: once the Nexus signature has been seen no attempt in the legacy
\* dialect is made: that attempt belongs to the branch of a first attempt
\* that timed out.
C10_TwoBranch ==
    Nexus => (~LegacyAttempted /\ attempts[1].outcome # "timeout")

\* C11: a connection that fails, by an authentication failure or by a
\* timeout of the first attempt followed by a fallback attempt that fails,
\* makes make_connection return False, Main.run goes back to the device
\* selection, and the failure does not leave make_connection as an exception.
C11_FailureReturnsFalse ==
    LET failed ==
            \/ Len(attempts) >= 1 /\ attempts[1].outcome = "auth"
            \/ /\ Len(attempts) = 2
               /\ attempts[1].outcome = "timeout"
               /\ attempts[2].outcome # "ok"
    IN  failed => (returned = "False" /\ pc = "scan")

\* The pool of the device whose heading in the pool list is the text.
PoolOf(dev, heading) ==
    CHOOSE p \in {dev.pools[k] : k \in 1..Len(dev.pools)} : "Pool " \o p.name = heading

\* The step is a call of delete_dhcp that sent a command to the device.
DeleteDhcpStep ==
    /\ calls' = calls + 1
    /\ last'.op = "delete_dhcp"
    /\ last'.sent # <<>>

\* C12: deleting a pool with k address ranges issues exactly k release calls,
\* one per range in the pool's order, all of them before the one command
\* 'no ip dhcp <pool>' that is sent.
C12_ReleasePerSubRange ==
    [][DeleteDhcpStep =>
          /\ Len(last'.released) = Len(PoolOf(device, last'.name).subnets)
          /\ \A j \in 1..Len(last'.released) :
                last'.released[j] = PoolOf(device, last'.name).subnets[j].first
          /\ last'.sent = <<Literal(<<"no ip dhcp " \o last'.name>>)>>
          /\ last'.log = [j \in 1..(Len(last'.released) + 1) |->
                              IF j <= Len(last'.released) THEN "release" ELSE "send"]
    ]_vars

\* A pool with two ranges was deleted: two releases, then the command.
C12_Witness ==
    /\ last.op = "delete_dhcp"
    /\ Len(last.released) = 2
    /\ last.log = <<"release", "release", "send">>

\* The configuration text Interface.show hands to Interface.delete for the
\* interface of that name.
DetailsOf(dev, name) ==
    SliceFrom(ShowRunInterface(dev, name), FindSub(ShowRunInterface(dev, name), "interface"))

\* The one batch 'no <first line of the text>'.
NegationOf(details) == <<Literal(<<"no " \o SliceTo(details, Find(details, "\n"))>>)>>

\* The step is Interface.delete, reached through Interface.show, on the
\* stanza of an interface of the device, and it sent a command.
DeleteStep ==
    /\ calls' = calls + 1
    /\ last'.op = "delete"
    /\ last'.name # ""
    /\ last'.sent # <<>>

\* C13: Interface.delete on a stanza that does not hold "dhcp" releases the
\* first address literal of the stanza from the ledger and then sends
\* 'no <first line of the stanza>'; on a stanza that holds "dhcp" it leaves
\* the ledger as it is and sends only that command.
C13_DeleteReleasesThenNegates ==
    [][DeleteStep =>
          /\ last'.sent = NegationOf(DetailsOf(device, last'.name))
          /\ IF ~Contains(DetailsOf(device, last'.name), "dhcp")
             THEN /\ Len(FindIps(DetailsOf(device, last'.name))) > 0
                  /\ last'.released = <<FindIps(DetailsOf(device, last'.name))[1]>>
                  /\ DB_FILE' = ReleaseFrom(last'.released[1], DB_FILE, 1).db
                  /\ last'.log = <<"release", "send">>
             ELSE /\ last'.released = <<>>
                  /\ DB_FILE' = DB_FILE
                  /\ last'.log = <<"send">>
    ]_vars

\* A stanza with a static address was deleted: its record left the ledger
\* before the command went out.
C13_Witness ==
    /\ last.op = "delete"
    /\ last.name # ""
    /\ last.log = <<"release", "send">>
    /\ Len(last.released) = 1
    /\ \A k \in 1..Len(DB_FILE) : ~InNet(IPv4Address(last.released[1]), IPv4Network(DB_FILE[k]))

\* A stanza with a DHCP address was deleted: only the command went out.
C13_WitnessDhcp ==
    /\ last.op = "delete"
    /\ last.name # ""
    /\ last.log = <<"send">>
    /\ last.released = <<>>

\* The interface of the device with that name.
InterfaceOf(dev, name) ==
    dev.interfaces[CHOOSE k \in 1..Len(dev.interfaces) : dev.interfaces[k].interface = name]

\* The step is Physical.delete_physical on an interface of the device that
\* is not Serial and has a static address.
DeleteStaticPhysicalStep ==
    /\ calls' = calls + 1
    /\ last'.op = "delete_physical"
    /\ last'.name # ""
    /\ ~Contains(last'.name, "Serial")
    /\ InterfaceOf(device, last'.name).ip \notin {"", "dhcp"}

\* C14: deleting a physical interface that is not Serial and has a static
\* address releases that address from the ledger and, when the device takes
\* the command, sends 'no interface <name>'.
C14_PhysicalDeleteReleases ==
    [][DeleteStaticPhysicalStep =>
          /\ last'.released = <<InterfaceOf(device, last'.name).ip>>
          /\ DB_FILE' = ReleaseFrom(InterfaceOf(device, last'.name).ip, DB_FILE, 1).db
          /\ last'.outcome = "returned" =>
                last'.sent = NegationOf(DetailsOf(device, last'.name))
    ]_vars

\* The step is Physical.delete_physical on a Serial interface of the device.
DeleteSerialStep ==
    /\ calls' = calls + 1
    /\ last'.op = "delete_physical"
    /\ Contains(last'.name, "Serial")

\* C15: deleting a Serial interface sends no bare negation but the list
\* interface <name>, no desc, no ip address, shutdown.  When the interface
\* has its address by DHCP or has none, nothing is released and the list is
\* still sent; otherwise the address after 'ip address' is released.
C15_SerialSequence ==
    [][DeleteSerialStep =>
          /\ last'.sent # <<>> => last'.sent = <<Literal(SerialCommands(last'.name))>>
          /\ last'.outcome = "returned" => last'.sent # <<>>
          /\ IF InterfaceOf(device, last'.name).ip \in {"", "dhcp"}
             THEN /\ last'.error = ""
                  /\ last'.released = <<>>
                  /\ DB_FILE' = DB_FILE
             ELSE last'.outcome = "returned" =>
                     /\ last'.released = <<InterfaceOf(device, last'.name).ip>>
                     /\ DB_FILE' = ReleaseFrom(InterfaceOf(device, last'.name).ip, DB_FILE, 1).db
    ]_vars

\* The step is a delete that found no target: the family has no interface
\* or the operator chose none (get_user_interface gave ""), or the device
\* has no pool or the operator chose none (validate_input_int gave -1).
DeleteWithoutTargetStep ==
    /\ calls' = calls + 1
    /\ \/ last'.op \in {"delete", "delete_physical"} /\ last'.name = ""
       \/ last'.op = "delete_dhcp" /\ last'.choice = -1

\* C16: a delete that finds no target has no side effect: it sends no
\* command, removes no record from the ledger and leaves the device as it is.
C16_NoTargetNoSideEffect ==
    [][DeleteWithoutTargetStep =>
          /\ last'.sent = <<>>
          /\ last'.released = <<>>
          /\ DB_FILE' = DB_FILE
          /\ device' = device
    ]_vars

\* The name holds one of the prefixes of the physical ports.
HoldsPhysicalPrefix(name) ==
    \E k \in 1..Len(PhysicalPrefixes) : Contains(name, PhysicalPrefixes[k])

\* The name starts with one of the prefixes of the physical ports.
StartsWithPhysicalPrefix(name) ==
    \E k \in 1..Len(PhysicalPrefixes) :
        SubSeq(name, 1, Len(PhysicalPrefixes[k])) = PhysicalPrefixes[k]

\* The list the example of the family rules is about.
ExampleNames == <<"Ethernet0/0", "Ethernet0/0.10", "Loopback0", "Serial1/0">>

\* The example: Physical lists Ethernet0/0 and Serial1/0, Vlan Ethernet0/0.10.
ExampleHolds ==
    Names(device.interfaces) = ExampleNames =>
        /\ last.family = "Physical" => last.listed = <<"Ethernet0/0", "Serial1/0">>
        /\ last.family = "Vlan" => last.listed = <<"Ethernet0/0.10">>

\* C17: for every list of interfaces the device returns, the family Physical
\* is exactly the interfaces whose name holds Ethernet, Serial or BRI and no
\* dot, and the family Vlan exactly those whose name holds a dot; the example
\* list gives [Ethernet0/0, Serial1/0] and [Ethernet0/0.10].
C17_FamilyMembers ==
    last.op = "show" =>
        /\ last.family = "Physical" =>
              Members(last.listed) =
                  {n \in Members(Names(device.interfaces)) :
                      HoldsPhysicalPrefix(n) /\ ~Contains(n, ".")}
        /\ last.family = "Vlan" =>
              Members(last.listed) =
                  {n \in Members(Names(device.interfaces)) : Contains(n, ".")}
        /\ ExampleHolds

\* C17 as the family rules word it: Physical is exactly the interfaces whose
\* name starts with Ethernet, Serial or BRI and holds no dot.
C17_PhysicalStartsWith ==
    last.op = "show" =>
        /\ last.family = "Physical" =>
              Members(last.listed) =
                  {n \in Members(Names(device.interfaces)) :
                      StartsWithPhysicalPrefix(n) /\ ~Contains(n, ".")}
        /\ last.family = "Vlan" =>
              Members(last.listed) =
                  {n \in Members(Names(device.interfaces)) : Contains(n, ".")}
        /\ ExampleHolds

\* The physical interfaces of the example list were listed.
C17_Witness ==
    /\ last.op = "show"
    /\ last.family = "Physical"
    /\ Names(device.interfaces) = ExampleNames
    /\ last.listed = <<"Ethernet0/0", "Serial1/0">>

\* The sub-interfaces of a list with a physical port whose name does not
\* start with a prefix were listed.
C17_WitnessVlan ==
    /\ last.op = "show"
    /\ last.family = "Vlan"
    /\ last.listed = <<"Ethernet0/0.10">>
    /\ "GigabitEthernet0/1" \in Members(Names(device.interfaces))

\* Where the name stands in the list.
PositionIn(names, name) == CHOOSE k \in 1..Len(names) : names[k] = name

\* C18: for every family the interfaces listed are interfaces of the device,
\* in the order in which the device returned them, none of them twice.
C18_DeviceOrderKept ==
    last.op = "show" =>
        /\ Members(last.listed) \subseteq Members(Names(device.interfaces))
        /\ \A i, j \in 1..Len(last.listed) :
              i < j => PositionIn(Names(device.interfaces), last.listed[i])
                         < PositionIn(Names(device.interfaces), last.listed[j])

\* The running configuration of the interface holds an address literal or
\* the word dhcp.
InUse(dev, name) ==
    \/ Contains(ShowRunInterface(dev, name), "dhcp")
    \/ Len(FindIps(ShowRunInterface(dev, name))) > 0

\* The step is Physical.assign for an interface of the device that is in use.
AssignInUseStep ==
    /\ calls' = calls + 1
    /\ last'.op = "assign"
    /\ last'.name # ""
    /\ InUse(device, last'.name)

\* C19: Physical.assign for an interface whose running configuration holds
\* an address literal or the word dhcp sends no command and adds no
\* reservation, with the console and with the input file.
C19_InUseRejected ==
    [][AssignInUseStep =>
          /\ last'.sent = <<>>
          /\ last'.reserved = <<>>
          /\ DB_FILE' = DB_FILE
          /\ device' = device
    ]_vars

\* The console branch met an interface in use and left it as it was.
C19_Witness ==
    /\ last.op = "assign"
    /\ last.path = "console"
    /\ last.name # ""
    /\ InUse(device, last.name)
    /\ last.sent = <<>>
    /\ last.outcome = "raised"

\* The input-file branch met an interface in use and left it as it was.
C19_WitnessFile ==
    /\ last.op = "assign"
    /\ last.path = "file"
    /\ last.name # ""
    /\ InUse(device, last.name)
    /\ last.sent = <<>>
    /\ last.outcome = "returned"

\* The step is Physical.assign or Vlan.create_vlan with the text dhcp as
\* the address, typed at the console or read from the input file.
DhcpSentinelStep ==
    /\ calls' = calls + 1
    /\ last'.op \in {"assign", "create_vlan"}
    /\ last'.ip = "dhcp"

\* C20: a Physical or Vlan interface created with dhcp as its address, at
\* the console or from the input file, reserves nothing: the ledger is the
\* same afterwards.
C20_DhcpReservesNothing ==
    [][DhcpSentinelStep =>
          /\ last'.reserved = <<>>
          /\ DB_FILE' = DB_FILE
    ]_vars

\* A sub-interface of the port carries the number: its name is the port's
\* name, a dot and more, and its vlan is the number.
PortCarries(dev, port, vlan_number) ==
    \E k \in 1..Len(dev.interfaces) :
        /\ dev.interfaces[k].vlan_id = vlan_number
        /\ SubSeq(dev.interfaces[k].interface, 1, Len(port) + 1) = port \o "."

\* The step is Vlan.create_vlan from the input file, for a port of the
\* device and the address dhcp, and it returned.
CreateVlanFromFileStep ==
    /\ calls' = calls + 1
    /\ last'.op = "create_vlan"
    /\ last'.path = "file"
    /\ last'.ip = "dhcp"
    /\ last'.outcome = "returned"

\* C21: a number is refused for a port exactly when a sub-interface of that
\* port carries it: the same number on another port is accepted, and the
\* sub-interface created is named <port>.<number>.
C21_VlanPerPort ==
    [][CreateVlanFromFileStep =>
          /\ last'.sent = <<>> <=> PortCarries(device, last'.name, last'.vlan)
          /\ last'.sent # <<>> =>
                last'.sent[1].config.name = last'.name \o "." \o last'.vlan
    ]_vars

\* The step is DHCP.create_dhcp for a new pool of a given number.
CreateNewPoolStep ==
    /\ calls' = calls + 1
    /\ last'.op = "create_dhcp"
    /\ ~last'.adding
    /\ last'.name # ""

\* C22: a number is refused for a new pool exactly when the device has a
\* pool of that number: no pool is created under the number of an existing
\* pool, and a number no pool has is accepted.
C22_PoolNumberUnique ==
    [][CreateNewPoolStep =>
          /\ last'.sent # <<>> => ~PoolExists(device, last'.name)
          /\ last'.path = "file" =>
                (last'.error = "TypeError" <=> PoolExists(device, last'.name))
    ]_vars

\* An interface of the Loopback family has the name the candidate becomes
\* with its spaces removed, its first letter upper case and the rest lower.
NameTaken(dev, candidate) ==
    \E k \in 1..Len(dev.interfaces) :
        /\ Contains(dev.interfaces[k].interface, "Loopback")
        /\ dev.interfaces[k].interface = Capitalize(RemoveSpaces(candidate))

\* The step is Interface.create for a name.
CreateStep ==
    /\ calls' = calls + 1
    /\ last'.op = "create"
    /\ last'.name # ""

\* C23: a basic create sends nothing for a candidate that, normalised, is
\* the name of an interface of the family; and from the input file, with an
\* address that passes, the candidate is refused exactly in that case.
C23_NameIsFree ==
    [][CreateStep =>
          /\ last'.sent # <<>> => ~NameTaken(device, last'.name)
          /\ (/\ last'.path = "file"
              /\ last'.outcome = "returned"
              /\ AcceptedAgainst(last'.ip, DB_FILE))
             => (last'.sent = <<>> <=> NameTaken(device, last'.name))
    ]_vars

\* The file named "loopback 0" while the device had Loopback0: refused.
C23_Witness ==
    /\ last.op = "create"
    /\ last.path = "file"
    /\ last.name = "loopback 0"
    /\ last.outcome = "returned"
    /\ last.sent = <<>>
    /\ AcceptedAgainst(last.ip, DB_FILE)
    /\ NameTaken(device, last.name)

\* Candidates that are not an address with a prefix length: no '/' at all,
\* too few fields, letters, nothing before the '/', nothing at all.
MalformedTexts == {"10.0.0.55", "10.0.0", "dhcp", "abc/24", "/24", ""}

\* C24: whatever the ledger holds, check_ip_format is False for every
\* malformed candidate, a candidate without a '/' and prefix included.
C24_MalformedRejected ==
    \A c \in MalformedTexts : ~check_ip_format(c, DB_FILE)

\* Of the malformed candidates only the one whose text without its last
\* character is an address can pass.
C24_OnlyTheShortenedAddressPasses ==
    \A c \in MalformedTexts \ {"10.0.0.55"} : ~check_ip_format(c, DB_FILE)

\* A run passes from the reserve to the end of Interface.create.
ReserveStepOf(w) ==
    /\ workflow[w].at = "reserve"
    /\ workflow'[w].at = "done"

\* C25: between a run's availability check and its reserve nothing holds the
\* ledger: the run adds the text it was given whatever the other run has
\* reserved meanwhile, so two runs can both pass the check for one network
\* and both reserve it.
C25_CheckAndReserveApart ==
    [][\A w \in Runs :
          ReserveStepOf(w) => DB_FILE' = Append(DB_FILE, workflow[w].user_ip)]_vars

\* Both runs ended and the ledger holds one network twice.
C25_Witness ==
    /\ \A w \in Runs : workflow[w].at = "done"
    /\ workflow[1].user_ip = workflow[2].user_ip
    /\ DB_FILE = <<workflow[1].user_ip, workflow[2].user_ip>>
    /\ Overlap(DB_FILE[1], DB_FILE[2])

\* The lines joined again with one newline between each two.
RECURSIVE JoinLines(_)
JoinLines(lines) ==
    IF Len(lines) = 1 THEN lines[1]
    ELSE lines[1] \o "\n" \o JoinLines(Tail(lines))

\* The number of newline characters of a text.
Newlines(text) == Cardinality({i \in 1..Len(text) : CharAt(text, i) = "\n"})

\* The list is the text cut at its newline characters and nowhere else,
\* with every piece kept.
CutAtNewlines(text, lines) ==
    /\ Len(lines) = Newlines(text) + 1
    /\ \A k \in 1..Len(lines) : Newlines(lines[k]) = 0
    /\ JoinLines(lines) = text

C27_RouterAuthTerminal ==
    /\ (Len(attempts) >= 1 /\ attempts[1].outcome = "auth") => Len(attempts) = 1
    /\ \A k \in 2..Len(attempts) :
          attempts[k].device_type = "cisco_iso_telnet"
              => attempts[k - 1].outcome \in {"timeout", "ok"}

\* The ledger without its k-th record.
WithoutRecord(db, k) == SubSeq(db, 1, k - 1) \o SubSeq(db, k + 1, Len(db))

\* The positions of the records whose network contains the address.
Holders(db, a) == {k \in 1..Len(db) : Covers(db[k], IPv4Address(a))}

\* Releasing the address from the ledger removes one record that contains
\* it and no other, or nothing when no record contains it, and raises
\* nothing.
ReleasesExactlyOne(db, a) ==
    /\ ~edit_db(a, FALSE, db).raised
    /\ IF Holders(db, a) = {}
       THEN edit_db(a, FALSE, db).db = db
       ELSE \E k \in Holders(db, a) : edit_db(a, FALSE, db).db = WithoutRecord(db, k)

\* C28: from whatever ledger the program has built, a release removes
\* exactly one record, one whose network contains the address, and leaves
\* the others; with no such record the ledger stays and nothing is raised.
C28_ReleaseExactlyOne ==
    \A a \in ProbeAddresses : ReleasesExactlyOne(DB_FILE, a)

\* The same on the ledgers whose records are all networks and of which none
\* is held twice.
C28_OnDistinctNetworks ==
    (/\ \A k \in 1..Len(DB_FILE) : IPv4Network(DB_FILE[k]).ok
     /\ \A i, j \in 1..Len(DB_FILE) : i < j => DB_FILE[i] # DB_FILE[j])
    => \A a \in ProbeAddresses : ReleasesExactlyOne(DB_FILE, a)

\* The positions of an entry in the log of a handler.
LogPlaces(log, entry) == {k \in 1..Len(log) : log[k] = entry}

\* The step is a basic create that sent its commands and returned.
CreateSentStep ==
    /\ calls' = calls + 1
    /\ last'.op = "create"
    /\ last'.sent # <<>>
    /\ last'.outcome = "returned"

\* C29: a basic create that succeeds sends its one command list once, adds
\* the reservation after the send and before the listing whether or not the
\* ping was answered, and the ledger gains the one record the operator
\* supplied.
C29_CreateOrder ==
    [][CreateSentStep =>
          /\ Len(last'.sent) = 1
          /\ Cardinality(LogPlaces(last'.log, "send")) = 1
          /\ Cardinality(LogPlaces(last'.log, "reserve")) = 1
          /\ \A s \in LogPlaces(last'.log, "send"), r \in LogPlaces(last'.log, "reserve"),
                l \in LogPlaces(last'.log, "show") : s < r /\ r < l
          /\ LogPlaces(last'.log, "show") # {}
          /\ DB_FILE' = Append(DB_FILE, last'.ip)
    ]_vars

\* A basic create whose interface did not answer the ping and whose network
\* is the ledger's newest record.
C29_Witness ==
    /\ last.op = "create"
    /\ last.sent # <<>>
    /\ last.response = 1
    /\ Len(DB_FILE) >= 1
    /\ DB_FILE[Len(DB_FILE)] = last.ip

\* The step is a create workflow whose input one of the validations turns
\* down: a physical interface in use, a name taken or an address not
\* accepted in a basic create from the file, a VLAN number in use or a pool
\* number in use in a create from the file.
ValidationRejectsStep ==
    /\ calls' = calls + 1
    /\ last'.name # ""
    /\ \/ last'.op = "assign" /\ InUse(device, last'.name)
       \/ /\ last'.op = "create"
          /\ last'.path = "file"
          /\ (NameTaken(device, last'.name) \/ ~AcceptedAgainst(last'.ip, DB_FILE))
       \/ /\ last'.op = "create_vlan"
          /\ last'.path = "file"
          /\ ~check_vlan_in_use(last'.vlan, last'.name,
                                get_all_interfaces_of_type("Vlan", ShowInterfaces(device)))
       \/ /\ last'.op = "create_dhcp"
          /\ last'.path = "file"
          /\ ~last'.adding
          /\ ~check_pool_number(last'.name, device)

\* C30: a create workflow whose input a validation turns down sends nothing
\* and returns to its caller; it does not end in an error.
C30_RejectionsReturn ==
    [][ValidationRejectsStep => (last'.sent = <<>> /\ last'.outcome = "returned")]_vars

\* The same for the basic create and the VLAN create alone.
C30_BasicAndVlanReturn ==
    [][(ValidationRejectsStep /\ last'.op \in {"create", "create_vlan"})
          => (last'.sent = <<>> /\ last'.outcome = "returned")]_vars

CreateOps == {"create", "assign", "create_vlan", "create_dhcp"}

\* The step is a create workflow whose prompt 'console or input file' was
\* answered with something that is no number.
QuitAtPromptStep ==
    /\ calls' = calls + 1
    /\ last'.op \in CreateOps
    /\ last'.console_or_file = -1

\* C31: a create workflow whose prompt 'console or input file' gets an input
\* that is no number returns to the menu: the input file is not read, nothing
\* is sent and the ledger and the device stay as they were.
C31_QuitAtPrompt ==
    [][QuitAtPromptStep =>
          /\ last'.path = "none"
          /\ last'.sent = <<>>
          /\ last'.outcome = "returned"
          /\ DB_FILE' = DB_FILE
          /\ device' = device
    ]_vars

\* The same for the basic create alone.
C31_BasicQuits ==
    [][(QuitAtPromptStep /\ last'.op = "create") =>
          /\ last'.path = "none"
          /\ last'.sent = <<>>
          /\ last'.outcome = "returned"
          /\ DB_FILE' = DB_FILE
          /\ device' = device
    ]_vars

\* The interactive view got an input that is no number at the selection, or
\* found the family without an interface.
ViewQuit ==
    /\ last.op = "show"
    /\ pc = "details"
    /\ (last.choice = -1 \/ last.listed = <<>>)

\* C32: once the operator has typed something that is no number at the
\* selection of the interactive view, or the family has no interface, the
\* view eventually returns to its caller.
C32_ViewReturns == ViewQuit ~> (pc = "menu")

\* The step is the device menu answered with something that is no number.
DeviceMenuQuitStep ==
    /\ pc = "menu"
    /\ last'.op = "device_menu"
    /\ last'.choice = -1

\* C33: an input that is no number at the device menu brings the operator
\* back to the main menu; Main.run does not end.
C33_QuitToMainMenu ==
    [][DeviceMenuQuitStep => (pc' = "main_menu" /\ pc' # "ended")]_vars

\* The k-th connection of the session has been closed: make_connection calls
\* disconnect in one place, on the first connection, when the output of
\* 'show ver' holds the Nexus signature.
Disconnected(k) == k = 1 /\ Contains(output, "Nexus")

\* The connections of the session that were opened and not closed.
LiveConnections ==
    {k \in 1..Len(attempts) : attempts[k].outcome = "ok" /\ ~Disconnected(k)}

\* C34: a session never has more than one connection open: before
\* make_connection opens another, the earlier one has been disconnected.
C34_OneLiveConnection == Cardinality(LiveConnections) <= 1

\* The same for the reconnect after the Nexus signature alone.
C34_ReconnectClosesFirst ==
    (Len(attempts) = 2 /\ attempts[2].device_type = "cisco_nxos")
        => Cardinality(LiveConnections) <= 1

\* C35: every record of the ledger is an IPv4 network in CIDR form, never
\* the word dhcp and never the empty text, so check_ip_format is True for a
\* candidate whose address lies in no record.
C35_RecordsAreNetworks ==
    /\ \A k \in 1..Len(DB_FILE) :
          /\ DB_FILE[k] \notin {"dhcp", ""}
          /\ Find(DB_FILE[k], "/") # -1
          /\ IPv4Network(DB_FILE[k]).ok
    /\ \A c \in CandidateTexts :
          (\A k \in 1..Len(DB_FILE) :
                ~Covers(DB_FILE[k], IPv4Address(SliceTo(c, Find(c, "/")))))
              => check_ip_format(c, DB_FILE)

(***************************************************************************)
(* Interface.delete on a device whose loopbacks carry descriptions.        *)
(***************************************************************************)

\* What the input file held for the two loopbacks that were created: the
\* description is free text, and may name an address.
DescribedNetworks == {"10.0.1.0/24", "10.0.2.0/24", "10.0.3.0/24"}
DescribedNames == <<"Loopback0", "Loopback1">>
DescribedTexts == {"test", "peer 10.0.1.1", "peer 10.0.2.1"}

\* The device menu after Interface.create has built the two loopbacks from
\* the input file, one after the other, on the device and ledger of Init.
InitDescribed ==
    /\ \E ip1, ip2 \in DescribedNetworks, desc1, desc2 \in DescribedTexts :
         \E t1 \in {yaml_creation([ip |-> ip1, name |-> DescribedNames[1], desc |-> desc1],
                                  "Loopback", <<>>, InitDevice)} :
           /\ t1.ok
           /\ \E dev1 \in {ApplyBasic(InitDevice, t1.interface_data)},
                 db1 \in {edit_db(t1.user_ip, TRUE, <<>>).db} :
                \E t2 \in {yaml_creation([ip |-> ip2, name |-> DescribedNames[2],
                                          desc |-> desc2], "Loopback", db1, dev1)} :
                  /\ t2.ok
                  /\ device = ApplyBasic(dev1, t2.interface_data)
                  /\ DB_FILE = edit_db(t2.user_ip, TRUE, db1).db
    /\ last = NoOp
    /\ calls = 0
    /\ pc = "menu"
    /\ session_details = get_device_details(get_devices_in_network[1])
    /\ net_connect = "connected"
    /\ attempts = <<[device_type |-> "cisco_ios", outcome |-> "ok"]>>
    /\ output = "Cisco IOS Software"
    /\ returned = "True"
    /\ printed = ""
    /\ rounds = 1
    /\ workflow = <<>>
    /\ template_env = <<>>

NextDescribed == Delete

SpecDescribed == InitDescribed /\ [][NextDescribed]_vars

\* The interface of that name on the device.
InterfaceNamed(dev, name) ==
    dev.interfaces[CHOOSE k \in 1..Len(dev.interfaces) : dev.interfaces[k].interface = name]

\* The step is Interface.delete on the stanza of an interface of the device
\* that has a static address.
DeleteStaticStep ==
    /\ calls' = calls + 1
    /\ last'.op = "delete"
    /\ \E k \in 1..Len(device.interfaces) : device.interfaces[k].interface = last'.name
    /\ InterfaceNamed(device, last'.name).ip \notin {"", "dhcp"}

\* C36: deleting an interface takes from the ledger no record but the one
\* whose network contains the interface's configured address: every record
\* that does not contain it is in the ledger afterwards, whatever else the
\* stanza holds.
C36_ReleasesOwnReservation ==
    [][DeleteStaticStep =>
          SelectSeq(DB_FILE', LAMBDA r :
                       ~Covers(r, IPv4Address(InterfaceNamed(device, last'.name).ip)))
          = SelectSeq(DB_FILE, LAMBDA r :
                       ~Covers(r, IPv4Address(InterfaceNamed(device, last'.name).ip)))
    ]_vars

\* The step is DHCP.delete_dhcp, which keeps the number validate_input_int
\* returned for the list of pools shown: a position of the list, or -1 for
\* an input that is no number.
SelectFromListStep ==
    /\ calls' = calls + 1
    /\ last'.op = "delete_dhcp"

\* C37: the pool a delete acts on is the one displayed under the number the
\* operator entered, and an input that is no number selects no pool: no
\* command is sent, and the ledger and the device stay as they are.
C37_SelectedByIndex ==
    [][SelectFromListStep =>
          IF last'.choice = -1
          THEN /\ last'.name = ""
               /\ last'.sent = <<>>
               /\ DB_FILE' = DB_FILE
               /\ device' = device
          ELSE /\ last'.choice \in 1..Len(FindPools(ShowIpDhcpPool(device)))
               /\ last'.name = FindPools(ShowIpDhcpPool(device))[last'.choice]
    ]_vars

\* The same for the numbers of the list alone.
C37_NumbersSelectTheirItem ==
    [][SelectFromListStep /\ last'.choice # -1 =>
          /\ last'.choice \in 1..Len(FindPools(ShowIpDhcpPool(device)))
          /\ last'.name = FindPools(ShowIpDhcpPool(device))[last'.choice]
    ]_vars

\* Where Main.run stands inside make_connection.
InMakeConnection == {"connect", "show_ver", "reconnect", "fallback"}

\* A handler of the device menu has sent to the device or the device menu
\* is shown.
AtDeviceMenu == pc = "menu" \/ calls > 0

\* The step is a ConnectHandler call that timed out or was refused, and
\* make_connection makes no further attempt after it.
ConnectionFailedStep ==
    /\ pc \in InMakeConnection
    /\ Len(attempts') = Len(attempts) + 1
    /\ attempts'[Len(attempts')].outcome \in {"timeout", "auth"}
    /\ pc' \notin InMakeConnection

\* The step is the one Main.run takes at device selection.
DeviceSelectionStep == pc = "scan" /\ pc' # pc

\* The device menu and the handlers come only after make_connection has
\* returned True for the Session that is current.
C38_MenuOnlyWhenConnected ==
    AtDeviceMenu => returned = "True" /\ net_connect = "connected" /\ rounds >= 1

\* After make_connection has returned False, Main.run is at device selection,
\* and from there it builds a new Session: no attempt made, no handle, the
\* default dialect.
C38_ReturnedFalseSelectsAgain ==
    /\ [](returned = "False" => pc = "scan")
    /\ [][DeviceSelectionStep =>
             /\ pc' = "connect"
             /\ rounds' = rounds + 1
             /\ attempts' = <<>>
             /\ net_connect' = "BaseConnection"
             /\ returned' = "none"
             /\ session_details'.device_type = "cisco_ios"]_vars

\* C38: in Main.run the device menu is shown and a handler sends commands
\* only after make_connection has returned True for the current Session, and
\* a connection that failed leaves Main.run at device selection, where a new
\* Session is built.
C38_ConnectedBeforeMenu ==
    /\ [](AtDeviceMenu => returned = "True" /\ net_connect = "connected")
    /\ [][ConnectionFailedStep => pc' = "scan" /\ returned' = "False"]_vars
    /\ [][DeviceSelectionStep => pc' = "connect" /\ attempts' = <<>> /\ returned' = "none"]_vars

\* The step is a create workflow whose send_config_commands raised.
SendFailedStep ==
    /\ calls' = calls + 1
    /\ last'.op \in CreateOps
    /\ last'.error = "send"

\* C39: when sending the configuration commands of a create workflow
\* (basic, Physical, Vlan, DHCP) fails with an error, nothing is reserved:
\* the ledger is the one the workflow started with.
C39_FailedSendReservesNothing ==
    [][SendFailedStep =>
          /\ DB_FILE' = DB_FILE
          /\ last'.reserved = <<>>
          /\ last'.sent = <<>>
    ]_vars

\* The send of a DHCP create failed on a ledger that holds a reservation.
C39_Witness ==
    /\ last.op = "create_dhcp"
    /\ last.error = "send"
    /\ last.outcome = "raised"
    /\ last.ip # ""
    /\ DB_FILE # <<>>
    /\ \A k \in 1..Len(DB_FILE) : DB_FILE[k] # last.ip

\* The send of a basic, a Physical and a Vlan create failed.
C39_WitnessBasic == last.op = "create" /\ last.error = "send" /\ DB_FILE # <<>>
C39_WitnessPhysical == last.op = "assign" /\ last.error = "send" /\ DB_FILE # <<>>
C39_WitnessVlan == last.op = "create_vlan" /\ last.error = "send" /\ DB_FILE # <<>>

====
